---- MODULE Spec2Model ----
(***************************************************************************)
(* A model of downloadSiegHub: the fiscal document parser                  *)
(* (src/src/dfe/DocumentoFiscalParser.py) and the batch loop that decodes, *)
(* parses and saves the documents (src/src/sieg/SiegApiHandler.py).        *)
(*                                                                         *)
(* Python values are encoded as follows.  A str is a sequence of parts,    *)
(* each part a TLA+ string: a literal, or a value an f-string or a         *)
(* concatenation put there.  None is the one-part sequence PyNone.  A dict *)
(* is a function from its keys to its values.  Where the code looks at the *)
(* characters of a str (lower, endswith, in, split), the str is one part   *)
(* and Chars gives its characters.                                         *)
(***************************************************************************)
EXTENDS Naturals, Sequences, FiniteSets, TLC

VARIABLES
    xml_string,      \* parse_documento_fiscal_string: its argument
    pc,              \* parse_documento_fiscal_string: the statement it is at
    root,            \* the tree _parse_xml returned
    tipo_documento,  \* what _identificar_tipo_documento returned
    processor,       \* the extractor the dispatcher invoked
    resultado,       \* the value returned to the caller
    json_data,       \* process_and_save_base64: its argument
    data,            \* the items of what it loaded, in iteration order
    idx,             \* the position in data of the item the for loop takes next
    contador,        \* the local contador
    file_name,       \* the local file_name
    file_path,       \* the local file_path, unbound until first assigned
    dirs,            \* the directories that exist
    files,           \* the files that exist, each with what was last written to it
    status,          \* the call: loading, in its loop, returned, or left by an exception
    exception,       \* the exception that left the call, "" while none has
    outcomes,        \* what each iteration so far did
    self_namespaces, \* the attribute namespaces of each parser object
    frames,          \* concurrent calls of parse_documento_fiscal_string: their locals
    download,        \* download_xmls: its arguments, loop variables and position
    requested,       \* the payloads get_base64_data was called with, in order
    codec            \* one item from its text to the bytes written: each value on the way

pvars == << xml_string, pc, root, tipo_documento, processor, resultado >>

bvars == << json_data, data, idx, contador, file_name, file_path, dirs, files, status,
           exception, outcomes >>

cvars == << self_namespaces, frames >>

dvars == << download, requested >>

evars == << codec >>

vars == << pvars, bvars, cvars, dvars, evars >>

----------------------------------------------------------------------------
(* Strings *)

Chars(s) ==
  CASE
      s = "proceventonfe" ->
        << "p", "r", "o", "c", "e", "v", "e", "n", "t", "o", "n", "f", "e" >>
    [] s = "proceventocte" ->
        << "p", "r", "o", "c", "e", "v", "e", "n", "t", "o", "c", "t", "e" >>
    [] s = "proceventomdfe" ->
        << "p", "r", "o", "c", "e", "v", "e", "n", "t", "o", "m", "d", "f", "e" >>
    [] s = "eventoproc" ->
        << "e", "v", "e", "n", "t", "o", "p", "r", "o", "c" >>
    [] s = "evento" ->
        << "e", "v", "e", "n", "t", "o" >>
    [] s = "cteproc" ->
        << "c", "t", "e", "p", "r", "o", "c" >>
    [] s = "cte" ->
        << "c", "t", "e" >>
    [] s = "mdfeproc" ->
        << "m", "d", "f", "e", "p", "r", "o", "c" >>
    [] s = "mdfe" ->
        << "m", "d", "f", "e" >>
    [] s = "compnfse" ->
        << "c", "o", "m", "p", "n", "f", "s", "e" >>
    [] s = "nfse" ->
        << "n", "f", "s", "e" >>
    [] s = "nfeproc" ->
        << "n", "f", "e", "p", "r", "o", "c" >>
    [] s = "nfe" ->
        << "n", "f", "e" >>
    [] s = "procEventoCTe" ->
        << "p", "r", "o", "c", "E", "v", "e", "n", "t", "o", "C", "T", "e" >>
    [] s = "procEventoMDFe" ->
        << "p", "r", "o", "c", "E", "v", "e", "n", "t", "o", "M", "D", "F", "e" >>
    [] s = "procEventoNFe" ->
        << "p", "r", "o", "c", "E", "v", "e", "n", "t", "o", "N", "F", "e" >>
    [] s = "nfeProc" ->
        << "n", "f", "e", "P", "r", "o", "c" >>
    [] s = "NFe" ->
        << "N", "F", "e" >>
    [] s = "cteProc" ->
        << "c", "t", "e", "P", "r", "o", "c" >>
    [] s = "CTe" ->
        << "C", "T", "e" >>
    [] s = "mdfeProc" ->
        << "m", "d", "f", "e", "P", "r", "o", "c" >>
    [] s = "MDFe" ->
        << "M", "D", "F", "e" >>
    [] s = "CompNfse" ->
        << "C", "o", "m", "p", "N", "f", "s", "e" >>
    [] s = "Nfse" ->
        << "N", "f", "s", "e" >>
    [] s = "PROCEVENTONFE" ->
        << "P", "R", "O", "C", "E", "V", "E", "N", "T", "O", "N", "F", "E" >>
    [] s = "PROCEVENTOCTE" ->
        << "P", "R", "O", "C", "E", "V", "E", "N", "T", "O", "C", "T", "E" >>
    [] s = "NFEPROC" ->
        << "N", "F", "E", "P", "R", "O", "C" >>
    [] s = "xprocEventoNFe" ->
        << "x", "p", "r", "o", "c", "E", "v", "e", "n", "t", "o", "N", "F", "e" >>
    [] s = "xprocEventoCTe" ->
        << "x", "p", "r", "o", "c", "E", "v", "e", "n", "t", "o", "C", "T", "e" >>
    [] s = "retEvento" ->
        << "r", "e", "t", "E", "v", "e", "n", "t", "o" >>
    [] s = "resNFe" ->
        << "r", "e", "s", "N", "F", "e" >>
    [] s = "e" ->
        << "e" >>
    [] s = "proc" ->
        << "p", "r", "o", "c" >>
    [] s = "nfeProcX" ->
        << "n", "f", "e", "P", "r", "o", "c", "X" >>
    [] s = "Signature" ->
        << "S", "i", "g", "n", "a", "t", "u", "r", "e" >>
    [] s = "http://www.portalfiscal.inf.br/nfe" ->
        << "h", "t", "t", "p", ":", "/", "/", "w", "w", "w", ".", "p", "o", "r", "t", "a", "l", "f", "i", "s", "c", "a", "l", ".", "i", "n", "f", ".", "b", "r", "/", "n", "f", "e" >>
    [] s = "http://www.abrasf.org.br/nfse.xsd" ->
        << "h", "t", "t", "p", ":", "/", "/", "w", "w", "w", ".", "a", "b", "r", "a", "s", "f", ".", "o", "r", "g", ".", "b", "r", "/", "n", "f", "s", "e", ".", "x", "s", "d" >>
    [] s = "http://www.portalfiscal.inf.br/cte" ->
        << "h", "t", "t", "p", ":", "/", "/", "w", "w", "w", ".", "p", "o", "r", "t", "a", "l", "f", "i", "s", "c", "a", "l", ".", "i", "n", "f", ".", "b", "r", "/", "c", "t", "e" >>
    [] s = "http://www.portalfiscal.inf.br/mdfe" ->
        << "h", "t", "t", "p", ":", "/", "/", "w", "w", "w", ".", "p", "o", "r", "t", "a", "l", "f", "i", "s", "c", "a", "l", ".", "i", "n", "f", ".", "b", "r", "/", "m", "d", "f", "e" >>
    [] s = "http://www.w3.org/2000/09/xmldsig#" ->
        << "h", "t", "t", "p", ":", "/", "/", "w", "w", "w", ".", "w", "3", ".", "o", "r", "g", "/", "2", "0", "0", "0", "/", "0", "9", "/", "x", "m", "l", "d", "s", "i", "g", "#" >>
    [] s = "Tipo de documento fiscal não identificado" ->
        << "T", "i", "p", "o", " ", "d", "e", " ", "d", "o", "c", "u", "m", "e", "n", "t", "o", " ", "f", "i", "s", "c", "a", "l", " ", "n", "ã", "o", " ", "i", "d", "e", "n", "t", "i", "f", "i", "c", "a", "d", "o" >>
    [] s = "35200159594315000157550010000000012062777161" ->
        << "3", "5", "2", "0", "0", "1", "5", "9", "5", "9", "4", "3", "1", "5", "0", "0", "0", "1", "5", "7", "5", "5", "0", "0", "1", "0", "0", "0", "0", "0", "0", "0", "0", "1", "2", "0", "6", "2", "7", "7", "7", "1", "6", "1" >>
    [] s = "35200159594315000157570010000000011000000015" ->
        << "3", "5", "2", "0", "0", "1", "5", "9", "5", "9", "4", "3", "1", "5", "0", "0", "0", "1", "5", "7", "5", "7", "0", "0", "1", "0", "0", "0", "0", "0", "0", "0", "0", "1", "1", "0", "0", "0", "0", "0", "0", "0", "1", "5" >>
    [] s = "35200159594315000157580010000000011000000019" ->
        << "3", "5", "2", "0", "0", "1", "5", "9", "5", "9", "4", "3", "1", "5", "0", "0", "0", "1", "5", "7", "5", "8", "0", "0", "1", "0", "0", "0", "0", "0", "0", "0", "0", "1", "1", "0", "0", "0", "0", "0", "0", "0", "1", "9" >>
    [] s = "123" ->
        << "1", "2", "3" >>

UpperCase == << "A", "B", "C", "D", "E", "F", "G", "H", "I", "J", "K", "L", "M",
                "N", "O", "P", "Q", "R", "S", "T", "U", "V", "W", "X", "Y", "Z" >>

LowerCase == << "a", "b", "c", "d", "e", "f", "g", "h", "i", "j", "k", "l", "m",
                "n", "o", "p", "q", "r", "s", "t", "u", "v", "w", "x", "y", "z" >>

\* str.lower() on one character
LowerChar(c) ==
    IF \E i \in DOMAIN UpperCase : UpperCase[i] = c
    THEN LowerCase[CHOOSE i \in DOMAIN UpperCase : UpperCase[i] = c]
    ELSE c

\* str.lower() on a sequence of characters
Lower(cs) == [i \in 1..Len(cs) |-> LowerChar(cs[i])]

\* str.endswith
EndsWith(cs, suffix) ==
    /\ Len(cs) >= Len(suffix)
    /\ SubSeq(cs, Len(cs) - Len(suffix) + 1, Len(cs)) = suffix

\* the operator `in` on two str
Contains(cs, sub) ==
    \E i \in 0..(Len(cs) - Len(sub)) : SubSeq(cs, i + 1, i + Len(sub)) = sub

\* cs.split('}')[-1]: what follows the last '}', or all of cs
AfterLastBrace(cs) ==
    IF \E i \in 1..Len(cs) : cs[i] = "}"
    THEN LET last == CHOOSE i \in 1..Len(cs) :
                        /\ cs[i] = "}"
                        /\ \A j \in (i + 1)..Len(cs) : cs[j] # "}"
         IN  SubSeq(cs, last + 1, Len(cs))
    ELSE cs

\* cs.split('}')[1]: what lies between the first '}' and the next one
AfterFirstBrace(cs) ==
    LET first == CHOOSE i \in 1..Len(cs) :
                    /\ cs[i] = "}"
                    /\ \A j \in 1..(i - 1) : cs[j] # "}"
        rest  == SubSeq(cs, first + 1, Len(cs))
    IN  IF \E i \in 1..Len(rest) : rest[i] = "}"
        THEN SubSeq(rest, 1, (CHOOSE i \in 1..Len(rest) :
                                /\ rest[i] = "}"
                                /\ \A j \in 1..(i - 1) : rest[j] # "}") - 1)
        ELSE rest

PyNone == << "<None>" >>

\* What a call that may raise gives: the value it returned, or the exception
Decoded(v) == [ok |-> TRUE, value |-> v, exc |-> ""]

Raises(exc) == [ok |-> FALSE, value |-> << >>, exc |-> exc]

\* str(v) as an f-string interpolates it
Str(v) == IF v = PyNone THEN << "None" >> ELSE v

----------------------------------------------------------------------------
(* Documents.  A well-formed document is its root (local name and         *)
(* namespace URI, every element being in the root's namespace) and, in    *)
(* document order, the data its elements carry: the text of an element    *)
(* (attr = ""), or one of its attributes.  An element is named by its     *)
(* path below the root; a path's prefixes are elements too.               *)

namespaces ==
    [ nfe  |-> "http://www.portalfiscal.inf.br/nfe",
      nfse |-> "http://www.abrasf.org.br/nfse.xsd",
      cte  |-> "http://www.portalfiscal.inf.br/cte",
      mdfe |-> "http://www.portalfiscal.inf.br/mdfe",
      ds   |-> "http://www.w3.org/2000/09/xmldsig#" ]

\* A parser object: its one attribute the calls read
Self(ns) == [namespaces |-> ns]

\* DocumentoFiscalParser(): the object __init__ leaves
DocumentoFiscalParser == Self(namespaces)

\* The parser objects: the one process_and_save_base64 names, and another
Parsers == { "parserDFe", "outro" }

NoElement == << >>

Entry(path, attr, value) == [path |-> path, attr |-> attr, value |-> value]

\* Element.tag of the root, as ElementTree spells it: {uri}local
RootTag(r) ==
    IF r.uri = "" THEN Chars(r.tag)
    ELSE << "{" >> \o Chars(r.uri) \o << "}" >> \o Chars(r.tag)

IsPrefix(p, q) == Len(p) <= Len(q) /\ SubSeq(q, 1, Len(p)) = p

IsSuffix(s, q) == Len(s) <= Len(q) /\ SubSeq(q, Len(q) - Len(s) + 1, Len(q)) = s

\* The elements strictly below `context` that the path pattern `steps`
\* selects: './/a/b' with deep, 'a/b' without.
Matches(r, context, steps, deep) ==
    { q \in UNION { { SubSeq(r.els[i].path, 1, n) : n \in 1..Len(r.els[i].path) } :
                        i \in DOMAIN r.els } :
        /\ IsPrefix(context, q)
        /\ IF deep THEN Len(q) - Len(context) >= Len(steps) /\ IsSuffix(steps, q)
                   ELSE q = context \o steps }

\* Where an element first appears in the document
Position(r, q) == CHOOSE i \in DOMAIN r.els :
                      /\ IsPrefix(q, r.els[i].path)
                      /\ \A j \in 1..(i - 1) : ~IsPrefix(q, r.els[j].path)

\* Element.find: the first element iterfind yields, or None.  For './/a/b'
\* ElementPath takes the elements a below the context in document order, an
\* ancestor before its descendants, and yields the b children of each in
\* turn; for 'a/b' the one chain of children.
FindIn(r, uri, context, steps, deep) ==
    LET ms == Matches(r, context, steps, deep)
        \* the element the first step selected on the way to q
        anchor(q) == SubSeq(q, 1, Len(q) - Len(steps) + 1)
        before(p, q) ==
            \/ Position(r, anchor(p)) < Position(r, anchor(q))
            \/ /\ Position(r, anchor(p)) = Position(r, anchor(q))
               /\ \/ Len(p) < Len(q)
                  \/ Len(p) = Len(q) /\ Position(r, p) < Position(r, q)
    IN  IF r.uri # uri \/ ms = {} THEN NoElement
        ELSE CHOOSE q \in ms : \A p \in ms \ { q } : before(q, p)

\* root.find('.//a/b', namespaces)
find(r, uri, steps) == FindIn(r, uri, << >>, steps, TRUE)

HasDatum(r, q, attr) ==
    \E i \in DOMAIN r.els : r.els[i].path = q /\ r.els[i].attr = attr

Datum(r, q, attr) ==
    r.els[CHOOSE i \in DOMAIN r.els : r.els[i].path = q /\ r.els[i].attr = attr].value

\* Element.text
text(r, q) == IF HasDatum(r, q, "") THEN Datum(r, q, "") ELSE PyNone

\* Element.findtext(path): None when no element matches, '' for an element
\* whose text is None
findtext(r, uri, context, steps, deep) ==
    LET q == FindIn(r, uri, context, steps, deep)
    IN  IF q = NoElement THEN PyNone
        ELSE IF text(r, q) = PyNone THEN << >> ELSE text(r, q)
----------------------------------------------------------------------------
(* DocumentoFiscalParser._identificar_tipo_documento *)

\* The same entries with the one-document suffixes nfe, cte and mdfe put
\* first: a table that tests a shorter suffix before a longer one
tipo_mapping_curtos_primeiro ==
    << << "nfe",            "NF-e"           >>,
       << "cte",            "CT-e"           >>,
       << "mdfe",           "MDF-e"          >>,
       << "proceventonfe",  "procEventoNFe"  >>,
       << "proceventocte",  "procEventoCTe"  >>,
       << "proceventomdfe", "procEventoMDFe" >>,
       << "eventoproc",     "Evento"         >>,
       << "evento",         "Evento"         >>,
       << "cteproc",        "CT-e"           >>,
       << "mdfeproc",       "MDF-e"          >>,
       << "compnfse",       "NFS-e"          >>,
       << "nfse",           "NFS-e"          >>,
       << "nfeproc",        "NF-e"           >> >>

\* The dict tipo_mapping, in insertion order: (suffix, doc_type)
tipo_mapping ==
    << << "proceventonfe",  "procEventoNFe"  >>,
       << "proceventocte",  "procEventoCTe"  >>,
       << "proceventomdfe", "procEventoMDFe" >>,
       << "eventoproc",     "Evento"         >>,
       << "evento",         "Evento"         >>,
       << "cteproc",        "CT-e"           >>,
       << "cte",            "CT-e"           >>,
       << "mdfeproc",       "MDF-e"          >>,
       << "mdfe",           "MDF-e"          >>,
       << "compnfse",       "NFS-e"          >>,
       << "nfse",           "NFS-e"          >>,
       << "nfeproc",        "NF-e"           >>,
       << "nfe",            "NF-e"           >> >>

\* for suffix, doc_type in tipo_mapping.items(): if tag.endswith(suffix): return doc_type
RECURSIVE IdentificarDesde(_, _, _)
IdentificarDesde(mapping, tag, i) ==
    IF i > Len(mapping) THEN PyNone
    ELSE IF EndsWith(tag, Chars(mapping[i][1])) THEN << mapping[i][2] >>
    ELSE IdentificarDesde(mapping, tag, i + 1)

\* A classifier in which the last matching entry wins, not the first
_identificar_pelo_ultimo(r) ==
    LET tag == Lower(RootTag(r))
        ms  == { i \in DOMAIN tipo_mapping : EndsWith(tag, Chars(tipo_mapping[i][1])) }
    IN  IF ms = { } THEN PyNone
        ELSE << tipo_mapping[CHOOSE i \in ms : \A j \in ms : j <= i][2] >>

_identificar_tipo_documento(r) ==
    IdentificarDesde(tipo_mapping, Lower(RootTag(r)), 1)
----------------------------------------------------------------------------
(* The extractors of the primary documents.  Each returns a dict: the     *)
(* business fields, or the single key erro.                               *)

\* str.replace(old, ''), old being a whole part
Replace(v, old) == SelectSeq(v, LAMBDA p : p # old)

\* 'T' in v
HasT(v) == \E i \in DOMAIN v : v[i] = "T"

\* v.split('T')[0]
SplitT0(v) ==
    IF HasT(v)
    THEN SubSeq(v, 1, (CHOOSE i \in DOMAIN v :
                          v[i] = "T" /\ \A j \in 1..(i - 1) : v[j] # "T") - 1)
    ELSE v

\* x.text if x is not None else None
TextOrNone(r, q) == IF q # NoElement THEN text(r, q) ELSE PyNone

\* str(e) of the KeyError that attrib['Id'] raises
KeyErrorId == "'Id'"

\* str(e) of the AttributeError that None.text raises
NoneHasNoText == "'NoneType' object has no attribute 'text'"

\* parse_nfe, were it to read dEmi first and dhEmi only when dEmi is absent
parse_nfe_dEmi_primeiro(r, tipo) ==
    LET ns == "http://www.portalfiscal.inf.br/nfe"
        inf_nfe == find(r, ns, << "infNFe" >>)
        cnpj_emitente == find(r, ns, << "emit", "CNPJ" >>)
        cnpj_destinatario == find(r, ns, << "dest", "CNPJ" >>)
        cpf_destinatario == find(r, ns, << "dest", "CPF" >>)
        dEmi == find(r, ns, << "ide", "dEmi" >>)
        data_emissao == IF dEmi = NoElement
                        THEN find(r, ns, << "ide", "dhEmi" >>)
                        ELSE dEmi
        data_emissao_text == TextOrNone(r, data_emissao)
        protocolo == find(r, ns, << "protNFe", "infProt", "nProt" >>)
    IN  IF inf_nfe # NoElement /\ ~HasDatum(r, inf_nfe, "Id")
        THEN [erro |-> << "Erro inesperado: ", KeyErrorId >>]
        ELSE [ tipo_documento |-> tipo,
               chave_acesso |->
                   IF inf_nfe # NoElement
                   THEN Replace(Datum(r, inf_nfe, "Id"), "NFe") ELSE PyNone,
               cnpj_emitente |-> TextOrNone(r, cnpj_emitente),
               destinatario |->
                   IF cnpj_destinatario # NoElement THEN text(r, cnpj_destinatario)
                   ELSE IF cpf_destinatario # NoElement THEN text(r, cpf_destinatario)
                   ELSE << "Não especificado" >>,
               data_emissao |->
                   IF data_emissao_text # PyNone /\ HasT(data_emissao_text)
                   THEN SplitT0(data_emissao_text) ELSE data_emissao_text,
               protocolo |-> TextOrNone(r, protocolo) ]

\* An extractor that reports a failure on a record that keeps a business
\* field
parse_nfe_erro_parcial(r, tipo) ==
    [ erro |-> << "Erro ao processar NF-e" >>, tipo_documento |-> tipo ]

parse_nfe(r, tipo) ==
    LET ns == "http://www.portalfiscal.inf.br/nfe"
        inf_nfe == find(r, ns, << "infNFe" >>)
        cnpj_emitente == find(r, ns, << "emit", "CNPJ" >>)
        cnpj_destinatario == find(r, ns, << "dest", "CNPJ" >>)
        cpf_destinatario == find(r, ns, << "dest", "CPF" >>)
        dhEmi == find(r, ns, << "ide", "dhEmi" >>)
        data_emissao == IF dhEmi = NoElement
                        THEN find(r, ns, << "ide", "dEmi" >>)
                        ELSE dhEmi
        data_emissao_text == TextOrNone(r, data_emissao)
        protocolo == find(r, ns, << "protNFe", "infProt", "nProt" >>)
    IN  IF inf_nfe # NoElement /\ ~HasDatum(r, inf_nfe, "Id")
        THEN [erro |-> << "Erro inesperado: ", KeyErrorId >>]
        ELSE [ tipo_documento |-> tipo,
               chave_acesso |->
                   IF inf_nfe # NoElement
                   THEN Replace(Datum(r, inf_nfe, "Id"), "NFe") ELSE PyNone,
               cnpj_emitente |-> TextOrNone(r, cnpj_emitente),
               destinatario |->
                   IF cnpj_destinatario # NoElement THEN text(r, cnpj_destinatario)
                   ELSE IF cpf_destinatario # NoElement THEN text(r, cpf_destinatario)
                   ELSE << "Não especificado" >>,
               data_emissao |->
                   IF data_emissao_text # PyNone /\ HasT(data_emissao_text)
                   THEN SplitT0(data_emissao_text) ELSE data_emissao_text,
               protocolo |-> TextOrNone(r, protocolo) ]

parse_cte(r, tipo) ==
    LET ns == "http://www.portalfiscal.inf.br/cte"
        inf_cte == find(r, ns, << "infCte" >>)
        cnpj_emitente == find(r, ns, << "emit", "CNPJ" >>)
        destinatario == find(r, ns, << "dest", "CNPJ" >>)
        data_emissao_text == TextOrNone(r, find(r, ns, << "ide", "dhEmi" >>))
        protocolo == find(r, ns, << "protCTe", "infProt", "nProt" >>)
    IN  IF inf_cte # NoElement /\ ~HasDatum(r, inf_cte, "Id")
        THEN [erro |-> << "Erro inesperado: ", KeyErrorId >>]
        ELSE [ tipo_documento |-> tipo,
               chave_acesso |->
                   IF inf_cte # NoElement
                   THEN Replace(Datum(r, inf_cte, "Id"), "CTe") ELSE PyNone,
               cnpj_emitente |-> TextOrNone(r, cnpj_emitente),
               destinatario |-> TextOrNone(r, destinatario),
               data_emissao |->
                   IF data_emissao_text # PyNone
                   THEN SplitT0(data_emissao_text) ELSE PyNone,
               protocolo |-> TextOrNone(r, protocolo) ]

parse_mdfe(r, tipo) ==
    LET ns == "http://www.portalfiscal.inf.br/mdfe"
        inf_mdfe == find(r, ns, << "infMDFe" >>)
        cnpj_emitente == find(r, ns, << "emit", "CNPJ" >>)
        contratante == find(r, ns, << "infModal", "rodo", "infANTT", "RNTRC" >>)
        data_emissao_text == TextOrNone(r, find(r, ns, << "ide", "dhEmi" >>))
        protocolo == find(r, ns, << "protMDFe", "infProt", "nProt" >>)
    IN  IF inf_mdfe # NoElement /\ ~HasDatum(r, inf_mdfe, "Id")
        THEN [erro |-> << "Erro inesperado: ", KeyErrorId >>]
        ELSE [ tipo_documento |-> tipo,
               chave_acesso |->
                   IF inf_mdfe # NoElement
                   THEN Replace(Datum(r, inf_mdfe, "Id"), "MDFe") ELSE PyNone,
               cnpj_emitente |-> TextOrNone(r, cnpj_emitente),
               destinatario |->
                   IF contratante # NoElement THEN text(r, contratante)
                   ELSE << "Não especificado" >>,
               data_emissao |->
                   IF data_emissao_text # PyNone
                   THEN SplitT0(data_emissao_text) ELSE PyNone,
               protocolo |-> TextOrNone(r, protocolo) ]

parse_nfse(r, tipo) ==
    LET ns == "http://www.abrasf.org.br/nfse.xsd"
        inf_nfse == find(r, ns, << "InfNfse" >>)
        numero == FindIn(r, ns, inf_nfse, << "Numero" >>, TRUE)
        cnpj_prestador ==
            find(r, ns, << "PrestadorServico", "IdentificacaoPrestador", "Cnpj" >>)
        cnpj_tomador ==
            find(r, ns, << "TomadorServico", "IdentificacaoTomador", "CpfCnpj", "Cnpj" >>)
        data_emissao_text == TextOrNone(r, find(r, ns, << "InfNfse", "DataEmissao" >>))
        numero_nfse == find(r, ns, << "InfNfse", "Numero" >>)
    IN  IF inf_nfse # NoElement /\ numero = NoElement
        THEN [erro |-> << "Erro inesperado: ", NoneHasNoText >>]
        ELSE [ tipo_documento |-> tipo,
               chave_acesso |-> IF inf_nfse # NoElement THEN text(r, numero) ELSE PyNone,
               cnpj_emitente |-> TextOrNone(r, cnpj_prestador),
               destinatario |-> TextOrNone(r, cnpj_tomador),
               data_emissao |->
                   IF data_emissao_text # PyNone
                   THEN SplitT0(data_emissao_text) ELSE PyNone,
               protocolo |-> TextOrNone(r, numero_nfse) ]
----------------------------------------------------------------------------
(* datetime.fromisoformat(v).strftime('%Y-%m-%d %H:%M:%S').  A timestamp   *)
(* is the parts date, "T", time, zone; the time and the zone are optional. *)

IsoDates == { "2024-12-09", "2020-01-31" }
IsoTimes == { "08:30:00", "23:59:59" }
IsoZones == { "-03:00", "+00:00" }

\* fromisoformat accepts v
IsIsoFormat(v) ==
    /\ Len(v) \in { 1, 3, 4 }
    /\ v[1] \in IsoDates
    /\ Len(v) >= 3 => v[2] = "T" /\ v[3] \in IsoTimes
    /\ Len(v) = 4 => v[4] \in IsoZones

\* strftime('%Y-%m-%d %H:%M:%S') of the datetime fromisoformat(v) built
FormatIso(v) ==
    << v[1], " ", IF Len(v) >= 3 THEN v[3] ELSE "00:00:00" >>

\* str(e) of the ValueError fromisoformat raises on a str it cannot parse
InvalidIsoformat(v) == << "Invalid isoformat string: '" >> \o v \o << "'" >>

\* str(e) of the TypeError fromisoformat raises on None
FromisoformatNotStr == "fromisoformat: argument must be str"

----------------------------------------------------------------------------
(* The extractors of the events *)

\* _processar_evento, were it not to require xEvento
_processar_evento_sem_xEvento(self, r, tipo) ==
    LET ns == self.namespaces.nfe
        chave_acesso == find(r, ns, << "chNFe" >>)
        tipo_evento == find(r, ns, << "tpEvento" >>)
        descricao_evento == find(r, ns, << "xEvento" >>)
        data_evento == find(r, ns, << "dhEvento" >>)
    IN  IF NoElement \in { chave_acesso, tipo_evento, data_evento }
        THEN [erro |-> << "Informações obrigatórias do evento não encontradas" >>]
        ELSE IF text(r, data_evento) = PyNone
        THEN [erro |-> << "Erro inesperado ao processar evento: ", FromisoformatNotStr >>]
        ELSE IF ~IsIsoFormat(text(r, data_evento))
        THEN [erro |-> InvalidIsoformat(text(r, data_evento))]
        ELSE [ tipo_documento |-> << "Evento" >>,
               isevent |-> << "1" >>,
               chave_acesso |-> text(r, chave_acesso),
               tipo_evento |-> text(r, tipo_evento),
               descricao_evento |-> IF descricao_evento = NoElement THEN PyNone
                                    ELSE text(r, descricao_evento),
               data_evento |-> FormatIso(text(r, data_evento)) ]

\* _processar_evento, were it to leave the event marker out
_processar_evento_sem_isevent(self, r, tipo) ==
    LET ns == self.namespaces.nfe
        chave_acesso == find(r, ns, << "chNFe" >>)
        tipo_evento == find(r, ns, << "tpEvento" >>)
        descricao_evento == find(r, ns, << "xEvento" >>)
        data_evento == find(r, ns, << "dhEvento" >>)
    IN  IF NoElement \in { chave_acesso, tipo_evento, descricao_evento, data_evento }
        THEN [erro |-> << "Informações obrigatórias do evento não encontradas" >>]
        ELSE IF text(r, data_evento) = PyNone
        THEN [erro |-> << "Erro inesperado ao processar evento: ", FromisoformatNotStr >>]
        ELSE IF ~IsIsoFormat(text(r, data_evento))
        THEN [erro |-> InvalidIsoformat(text(r, data_evento))]
        ELSE [ tipo_documento |-> << "Evento" >>,
               chave_acesso |-> text(r, chave_acesso),
               tipo_evento |-> text(r, tipo_evento),
               descricao_evento |-> text(r, descricao_evento),
               data_evento |-> FormatIso(text(r, data_evento)) ]

_processar_evento(self, r, tipo) ==
    LET ns == self.namespaces.nfe
        chave_acesso == find(r, ns, << "chNFe" >>)
        tipo_evento == find(r, ns, << "tpEvento" >>)
        descricao_evento == find(r, ns, << "xEvento" >>)
        data_evento == find(r, ns, << "dhEvento" >>)
    IN  IF NoElement \in { chave_acesso, tipo_evento, descricao_evento, data_evento }
        THEN [erro |-> << "Informações obrigatórias do evento não encontradas" >>]
        ELSE IF text(r, data_evento) = PyNone
        THEN [erro |-> << "Erro inesperado ao processar evento: ", FromisoformatNotStr >>]
        ELSE IF ~IsIsoFormat(text(r, data_evento))
        THEN [erro |-> InvalidIsoformat(text(r, data_evento))]
        ELSE [ tipo_documento |-> << "Evento" >>,
               isevent |-> << "1" >>,
               chave_acesso |-> text(r, chave_acesso),
               tipo_evento |-> text(r, tipo_evento),
               descricao_evento |-> text(r, descricao_evento),
               data_evento |-> FormatIso(text(r, data_evento)) ]

\* The dict ns_map of _processar_proc_evento
ns_map == << << "proceventonfe", "nfe" >>,
             << "proceventocte", "cte" >>,
             << "proceventomdfe", "mdfe" >> >>

\* ns_map.get(root.tag.lower().split('}')[-1], None)
NsLookup(r) ==
    LET ns_lookup == AfterLastBrace(Lower(RootTag(r)))
    IN  IF \E i \in DOMAIN ns_map : Chars(ns_map[i][1]) = ns_lookup
        THEN << ns_map[CHOOSE i \in DOMAIN ns_map : Chars(ns_map[i][1]) = ns_lookup][2] >>
        ELSE PyNone

\* The dict campos of _processar_proc_evento, in insertion order: (campo, tag)
campos == << << "chave_acesso",     "chNFe"      >>,
             << "tipo_evento",      "tpEvento"   >>,
             << "sequencia_evento", "nSeqEvento" >>,
             << "cnpj_emitente",    "CNPJ"       >>,
             << "data_evento",      "dhEvento"   >>,
             << "descricao_evento", "xEvento"    >>,
             << "protocolo",        "nProt"      >> >>

\* str(e) of the AttributeError that root.nsmap raises on an ElementTree element
NoNsmap == "'xml.etree.ElementTree.Element' object has no attribute 'nsmap'"

\* _processar_proc_evento, were it to try eventocte before evento
_processar_proc_evento_cte_primeiro(self, r, tipo) ==
    LET ns == NsLookup(r)
        uri == self.namespaces[ns[1]]
        evento ==
            IF find(r, uri, << "eventocte" >>) # NoElement
            THEN find(r, uri, << "eventocte" >>)
            ELSE IF find(r, uri, << "evento" >>) # NoElement
                 THEN find(r, uri, << "evento" >>)
            ELSE find(r, uri, << "eventomdf" >>)
        infEvento == FindIn(r, uri, evento, << "infEvento" >>, TRUE)
        elemento(i) == FindIn(r, uri, infEvento, << campos[i][2] >>, TRUE)
        found == { i \in DOMAIN campos : elemento(i) # NoElement }
        dh == CHOOSE i \in DOMAIN campos : campos[i][1] = "data_evento"
        retEvento == find(r, uri, << "retEvento" >>)
        cStat == FindIn(r, uri, retEvento, << "cStat" >>, TRUE)
        xMotivo == FindIn(r, uri, retEvento, << "xMotivo" >>, TRUE)
        keys == { "tipo_documento", "isevent" }
                    \cup { campos[i][1] : i \in found }
                    \cup IF retEvento # NoElement
                         THEN { "status_processamento", "motivo" } ELSE { }
        valor(k) ==
            LET i == CHOOSE j \in DOMAIN campos : campos[j][1] = k
            IN  IF i = dh THEN FormatIso(text(r, elemento(i))) ELSE text(r, elemento(i))
    IN  IF ns = PyNone
        THEN [erro |-> << "Erro inesperado ao processar procEvento: ", NoNsmap >>]
        ELSE IF evento = NoElement
        THEN [erro |-> << "Evento não encontrado no procEvento" >>]
        ELSE IF infEvento = NoElement
        THEN [erro |-> << "infEvento não encontrado no procEvento" >>]
        ELSE IF dh \in found /\ text(r, elemento(dh)) = PyNone
        THEN [erro |-> << "Erro inesperado ao processar procEvento: ", FromisoformatNotStr >>]
        ELSE IF dh \in found /\ ~IsIsoFormat(text(r, elemento(dh)))
        THEN [erro |-> InvalidIsoformat(text(r, elemento(dh)))]
        ELSE IF retEvento # NoElement /\ (cStat = NoElement \/ xMotivo = NoElement)
        THEN [erro |-> << "Erro inesperado ao processar procEvento: ", NoneHasNoText >>]
        ELSE [ k \in keys |->
                 CASE k = "tipo_documento" -> tipo
                   [] k = "isevent" -> << "1" >>
                   [] k = "status_processamento" -> text(r, cStat)
                   [] k = "motivo" -> text(r, xMotivo)
                   [] OTHER -> valor(k) ]

_processar_proc_evento(self, r, tipo) ==
    LET ns == NsLookup(r)
        uri == self.namespaces[ns[1]]
        evento ==
            IF find(r, uri, << "evento" >>) # NoElement THEN find(r, uri, << "evento" >>)
            ELSE IF find(r, uri, << "eventocte" >>) # NoElement
                 THEN find(r, uri, << "eventocte" >>)
            ELSE find(r, uri, << "eventomdf" >>)
        infEvento == FindIn(r, uri, evento, << "infEvento" >>, TRUE)
        elemento(i) == FindIn(r, uri, infEvento, << campos[i][2] >>, TRUE)
        found == { i \in DOMAIN campos : elemento(i) # NoElement }
        dh == CHOOSE i \in DOMAIN campos : campos[i][1] = "data_evento"
        retEvento == find(r, uri, << "retEvento" >>)
        cStat == FindIn(r, uri, retEvento, << "cStat" >>, TRUE)
        xMotivo == FindIn(r, uri, retEvento, << "xMotivo" >>, TRUE)
        keys == { "tipo_documento", "isevent" }
                    \cup { campos[i][1] : i \in found }
                    \cup IF retEvento # NoElement
                         THEN { "status_processamento", "motivo" } ELSE { }
        valor(k) ==
            LET i == CHOOSE j \in DOMAIN campos : campos[j][1] = k
            IN  IF i = dh THEN FormatIso(text(r, elemento(i))) ELSE text(r, elemento(i))
    IN  IF ns = PyNone
        THEN [erro |-> << "Erro inesperado ao processar procEvento: ", NoNsmap >>]
        ELSE IF evento = NoElement
        THEN [erro |-> << "Evento não encontrado no procEvento" >>]
        ELSE IF infEvento = NoElement
        THEN [erro |-> << "infEvento não encontrado no procEvento" >>]
        ELSE IF dh \in found /\ text(r, elemento(dh)) = PyNone
        THEN [erro |-> << "Erro inesperado ao processar procEvento: ", FromisoformatNotStr >>]
        ELSE IF dh \in found /\ ~IsIsoFormat(text(r, elemento(dh)))
        THEN [erro |-> InvalidIsoformat(text(r, elemento(dh)))]
        ELSE IF retEvento # NoElement /\ (cStat = NoElement \/ xMotivo = NoElement)
        THEN [erro |-> << "Erro inesperado ao processar procEvento: ", NoneHasNoText >>]
        ELSE [ k \in keys |->
                 CASE k = "tipo_documento" -> tipo
                   [] k = "isevent" -> << "1" >>
                   [] k = "status_processamento" -> text(r, cStat)
                   [] k = "motivo" -> text(r, xMotivo)
                   [] OTHER -> valor(k) ]
\* a or b
Or(a, b) == IF a = PyNone \/ a = << >> THEN b ELSE a

\* The value None that _processar_proc_eventoCTeMDFe returns in place of a dict
NoneResult == [NoneType |-> PyNone]

_processar_proc_eventoCTeMDFe(self, r, tipo) ==
    LET tag == RootTag(r)
        root_tag == IF \E i \in DOMAIN tag : tag[i] = "}"
                    THEN AfterFirstBrace(tag) ELSE tag
        namespace == IF Contains(root_tag, Chars("procEventoCTe")) THEN self.namespaces.cte
                     ELSE IF Contains(root_tag, Chars("procEventoMDFe"))
                          THEN self.namespaces.mdfe
                     ELSE ""
        is_cte == Contains(Chars(namespace), Chars("cte"))
        info_evento == find(r, namespace, << "infEvento" >>)
        det_evento == FindIn(r, namespace, info_evento, << "detEvento" >>, TRUE)
        ret_evento == IF is_cte THEN find(r, namespace, << "retEventoCTe" >>)
                      ELSE find(r, namespace, << "retEventoMDFe" >>)
        mdfe_info == FindIn(r, namespace, det_evento, << "MDFe" >>, TRUE)
        info(name) == findtext(r, namespace, info_evento, << name >>, FALSE)
        ret(name) == findtext(r, namespace, ret_evento, << name >>, TRUE)
        mdfe(name) == findtext(r, namespace, mdfe_info, << name >>, FALSE)
        keys == { "tipo_documento", "chave_acesso", "tipo_evento", "sequencia_evento",
                  "data_evento", "status", "motivo", "protocolo", "data_registro",
                  "isevent" }
                    \cup IF mdfe_info # NoElement THEN { "mdfe" } ELSE { }
    IN  IF namespace = "" THEN NoneResult
        ELSE IF info_evento = NoElement THEN NoneResult
        ELSE IF det_evento = NoElement THEN NoneResult
        ELSE IF ret_evento = NoElement THEN NoneResult
        ELSE [ k \in keys |->
                 CASE k = "tipo_documento" -> IF is_cte THEN << "CTE" >> ELSE << "MDFE" >>
                   [] k = "chave_acesso" -> Or(info("chCTe"), info("chMDFe"))
                   [] k = "tipo_evento" -> info("tpEvento")
                   [] k = "sequencia_evento" -> info("nSeqEvento")
                   [] k = "data_evento" -> info("dhEvento")
                   [] k = "status" -> ret("cStat")
                   [] k = "motivo" -> ret("xMotivo")
                   [] k = "protocolo" -> ret("nProt")
                   [] k = "data_registro" -> ret("dhRegEvento")
                   [] k = "isevent" -> << "1" >>
                   \* the nested dict, as the parts of its three values
                   [] k = "mdfe" -> Str(mdfe("chMDFe")) \o << "," >> \o Str(mdfe("nProt"))
                                        \o << "," >> \o Str(mdfe("dhRecbto")) ]

----------------------------------------------------------------------------
(* DocumentoFiscalParser.parse_documento_fiscal_string *)

\* A dispatcher's table that registers no extractor for Evento
processors_sem_evento ==
    << << "NF-e",           "parse_nfe" >>,
       << "CT-e",           "parse_cte" >>,
       << "MDF-e",          "parse_mdfe" >>,
       << "NFS-e",          "parse_nfse" >>,
       << "procEventoNFe",  "_processar_proc_evento" >>,
       << "procEventoCTe",  "_processar_proc_eventoCTeMDFe" >>,
       << "procEventoMDFe", "_processar_proc_eventoCTeMDFe" >> >>

\* The dict processors: (tipo_documento, extractor)
processors ==
    << << "NF-e",           "parse_nfe" >>,
       << "CT-e",           "parse_cte" >>,
       << "MDF-e",          "parse_mdfe" >>,
       << "NFS-e",          "parse_nfse" >>,
       << "Evento",         "_processar_evento" >>,
       << "procEventoNFe",  "_processar_proc_evento" >>,
       << "procEventoCTe",  "_processar_proc_eventoCTeMDFe" >>,
       << "procEventoMDFe", "_processar_proc_eventoCTeMDFe" >> >>

NoProcessor == ""

\* A lookup that falls back on the NF-e extractor
ProcessorsGetOuNFe(tipo) ==
    IF \E i \in DOMAIN processors : << processors[i][1] >> = tipo
    THEN processors[CHOOSE i \in DOMAIN processors : << processors[i][1] >> = tipo][2]
    ELSE "parse_nfe"

\* processors.get(tipo_documento)
ProcessorsGet(tipo) ==
    IF \E i \in DOMAIN processors : << processors[i][1] >> = tipo
    THEN processors[CHOOSE i \in DOMAIN processors : << processors[i][1] >> = tipo][2]
    ELSE NoProcessor

\* processor(root, tipo_documento), a bound method of the parser object self
Invoke(self, name, r, tipo) ==
    CASE name = "parse_nfe" -> parse_nfe(r, tipo)
      [] name = "parse_cte" -> parse_cte(r, tipo)
      [] name = "parse_mdfe" -> parse_mdfe(r, tipo)
      [] name = "parse_nfse" -> parse_nfse(r, tipo)
      [] name = "_processar_evento" -> _processar_evento(self, r, tipo)
      [] name = "_processar_proc_evento" -> _processar_proc_evento(self, r, tipo)
      [] name = "_processar_proc_eventoCTeMDFe" ->
             _processar_proc_eventoCTeMDFe(self, r, tipo)

\* The dict returned when ET.fromstring raises ParseError
ErroXmlInvalido == [erro |-> << "Conteúdo fornecido não é um XML válido" >>]

\* The dict returned when no extractor is registered for tipo_documento
ErroNaoIdentificado == [erro |-> << "Tipo de documento fiscal não identificado" >>]

\* The dict returned when the call raises anything but ET.ParseError
ErroInesperado(e) == [erro |-> << "Erro inesperado: " >> \o e]

\* The dict of the handler that catches what ET.fromstring raised
ErroDoParse(xml) ==
    IF xml.exc = "ParseError" THEN ErroXmlInvalido ELSE ErroInesperado(xml.msg)

\* The whole call, as a function of the parser object and of its argument
parse_documento_fiscal_string(self, xml) ==
    IF ~xml.wf THEN ErroDoParse(xml)
    ELSE LET tipo == _identificar_tipo_documento(xml)
             name == ProcessorsGet(tipo)
         IN  IF name # NoProcessor THEN Invoke(self, name, xml, tipo)
             ELSE ErroNaoIdentificado
----------------------------------------------------------------------------
(* The documents the parser is run on.  A family is a root and a list of  *)
(* data in document order, of which any subset of `optional` may be       *)
(* missing.                                                               *)

Doc(tag, uri, els) ==
    [wf |-> TRUE, tag |-> tag, uri |-> uri, els |-> els, exc |-> "", msg |-> << >>]

\* An argument ET.fromstring raises exc on, str(exc) being msg
Rejected(exc, msg) ==
    [wf |-> FALSE, tag |-> "", uri |-> "", els |-> << >>, exc |-> exc, msg |-> msg]

\* A string ET.fromstring raises ParseError on
Malformed == Rejected("ParseError", << >>)

\* An argument that is no str and no bytes: None, or the int 5
NotBytesLike(type) ==
    Rejected("TypeError", << "a bytes-like object is required, not '", type, "'" >>)

\* A str that holds the lone surrogate U+D800, which UTF-8 cannot encode
LoneSurrogate ==
    Rejected("UnicodeEncodeError",
             << "'utf-8' codec can't encode character '\\ud800' in position 0: ",
                "surrogates not allowed" >>)

\* The arguments ET.fromstring rejects
RejectedArgs == { Malformed, NotBytesLike("NoneType"), NotBytesLike("int"), LoneSurrogate }

Family(tag, uri, entries, optional) ==
    { Doc(tag, uri, SelectSeq(entries, LAMBDA e : e \notin optional \/ e \in S)) :
        S \in SUBSET optional }

Range(s) == { s[i] : i \in DOMAIN s }

\* Root local names: the table's suffixes, the names as issued, other
\* casings, longer names, and names that no suffix matches
SuffixNames == { tipo_mapping[i][1] : i \in DOMAIN tipo_mapping }

IssuedNames == { "procEventoNFe", "procEventoCTe", "procEventoMDFe", "nfeProc", "NFe",
                 "cteProc", "CTe", "mdfeProc", "MDFe", "CompNfse", "Nfse" }

OtherNames == { "PROCEVENTONFE", "PROCEVENTOCTE", "NFEPROC", "xprocEventoNFe",
                "xprocEventoCTe", "retEvento", "resNFe" }

UnknownNames == { "e", "proc", "nfeProcX", "Signature" }

RootNames == SuffixNames \cup IssuedNames \cup OtherNames \cup UnknownNames

RootUris == { "", namespaces.nfe, namespaces.cte, namespaces.mdfe, namespaces.nfse }

TimestampTexts ==
    { << "2024-12-09", "T", "08:30:00", "-03:00" >>,   \* date, time and zone
      << "2024-12-09", "T", "23:59:59" >>,             \* no zone
      << "2020-01-31" >>,                              \* date only
      << "09/12/2024" >>,                              \* not ISO 8601
      PyNone }                                         \* an empty element

DhEmi == << "2024-12-09", "T", "08:30:00", "-03:00" >>

NFeEntries ==
    << Entry(<< "NFe", "infNFe" >>, "Id",
             << "NFe", "35200159594315000157550010000000012062777161" >>),
       Entry(<< "NFe", "infNFe", "ide", "dhEmi" >>, "", DhEmi),
       Entry(<< "NFe", "infNFe", "ide", "dEmi" >>, "", << "2020-01-31" >>),
       Entry(<< "NFe", "infNFe", "emit", "CNPJ" >>, "", << "59594315000157" >>),
       Entry(<< "NFe", "infNFe", "dest", "CNPJ" >>, "", << "11222333000181" >>),
       Entry(<< "NFe", "infNFe", "dest", "CPF" >>, "", << "52998224725" >>),
       Entry(<< "protNFe", "infProt", "nProt" >>, "", << "135200000000001" >>) >>

CTeEntries ==
    << Entry(<< "CTe", "infCte" >>, "Id",
             << "CTe", "35200159594315000157570010000000011000000015" >>),
       Entry(<< "CTe", "infCte", "ide", "dhEmi" >>, "", DhEmi),
       Entry(<< "CTe", "infCte", "emit", "CNPJ" >>, "", << "59594315000157" >>),
       Entry(<< "CTe", "infCte", "dest", "CNPJ" >>, "", << "11222333000181" >>),
       Entry(<< "CTe", "infCte", "dest", "CPF" >>, "", << "52998224725" >>),
       Entry(<< "protCTe", "infProt", "nProt" >>, "", << "135200000000002" >>) >>

MDFeEntries ==
    << Entry(<< "MDFe", "infMDFe" >>, "Id",
             << "MDFe", "35200159594315000157580010000000011000000019" >>),
       Entry(<< "MDFe", "infMDFe", "ide", "dhEmi" >>, "", DhEmi),
       Entry(<< "MDFe", "infMDFe", "emit", "CNPJ" >>, "", << "59594315000157" >>),
       Entry(<< "MDFe", "infMDFe", "infModal", "rodo", "infANTT", "RNTRC" >>, "",
             << "12345678" >>),
       Entry(<< "protMDFe", "infProt", "nProt" >>, "", << "135200000000003" >>) >>

NFSeEntries ==
    << Entry(<< "Nfse", "InfNfse" >>, "Id", << "nfse1" >>),
       Entry(<< "Nfse", "InfNfse", "Numero" >>, "", << "202400000000123" >>),
       Entry(<< "Nfse", "InfNfse", "DataEmissao" >>, "",
             << "2024-12-09", "T", "23:59:59" >>),
       Entry(<< "Nfse", "InfNfse", "IdentificacaoRps", "Numero" >>, "", << "77" >>),
       Entry(<< "Nfse", "InfNfse", "PrestadorServico", "IdentificacaoPrestador", "Cnpj" >>,
             "", << "59594315000157" >>),
       Entry(<< "Nfse", "InfNfse", "TomadorServico", "IdentificacaoTomador", "CpfCnpj",
                "Cnpj" >>, "", << "11222333000181" >>) >>

\* A bare event, with dhEvento holding dh
EventoEntries(dh) ==
    << Entry(<< "infEvento" >>, "Id", << "ID", "110111", "352001", "01" >>),
       Entry(<< "infEvento", "chNFe" >>, "",
             << "35200159594315000157550010000000012062777161" >>),
       Entry(<< "infEvento", "dhEvento" >>, "", dh),
       Entry(<< "infEvento", "tpEvento" >>, "", << "110111" >>),
       Entry(<< "infEvento", "detEvento", "xEvento" >>, "", << "Cancelamento" >>) >>

\* A procEventoNFe whose inner event node is named inner, dhEvento holding dh
ProcEventoNFeEntries(inner, dh) ==
    << Entry(<< inner >>, "versao", << "1.00" >>),
       Entry(<< inner, "infEvento" >>, "Id", << "ID", "110111", "352001", "01" >>),
       Entry(<< inner, "infEvento", "CNPJ" >>, "", << "59594315000157" >>),
       Entry(<< inner, "infEvento", "chNFe" >>, "",
             << "35200159594315000157550010000000012062777161" >>),
       Entry(<< inner, "infEvento", "dhEvento" >>, "", dh),
       Entry(<< inner, "infEvento", "tpEvento" >>, "", << "110111" >>),
       Entry(<< inner, "infEvento", "nSeqEvento" >>, "", << "1" >>),
       Entry(<< inner, "infEvento", "detEvento", "xEvento" >>, "", << "Cancelamento" >>),
       Entry(<< "retEvento" >>, "versao", << "1.00" >>),
       Entry(<< "retEvento", "infEvento", "cStat" >>, "", << "135" >>),
       Entry(<< "retEvento", "infEvento", "xMotivo" >>, "",
             << "Evento registrado e vinculado a NF-e" >>),
       Entry(<< "retEvento", "infEvento", "nProt" >>, "", << "135200000000004" >>) >>

\* A procEventoCTe (fam = "CTe") or a procEventoMDFe (fam = "MDFe")
ProcEventoFamEntries(fam, dh) ==
    << Entry(<< "evento" \o fam >>, "versao", << "3.00" >>),
       Entry(<< "evento" \o fam, "infEvento" >>, "Id", << "ID", "110111", "352001", "01" >>),
       Entry(<< "evento" \o fam, "infEvento", "ch" \o fam >>, "",
             << "35200159594315000157570010000000011000000015" >>),
       Entry(<< "evento" \o fam, "infEvento", "dhEvento" >>, "", dh),
       Entry(<< "evento" \o fam, "infEvento", "tpEvento" >>, "", << "110111" >>),
       Entry(<< "evento" \o fam, "infEvento", "nSeqEvento" >>, "", << "1" >>),
       Entry(<< "evento" \o fam, "infEvento", "detEvento" >>, "versaoEvento", << "3.00" >>),
       Entry(<< "evento" \o fam, "infEvento", "detEvento", "evCTeAutorizadoMDFe", "MDFe",
                "chMDFe" >>, "", << "35200159594315000157580010000000011000000019" >>),
       Entry(<< "retEvento" \o fam >>, "versao", << "3.00" >>),
       Entry(<< "retEvento" \o fam, "infEvento", "cStat" >>, "", << "135" >>),
       Entry(<< "retEvento" \o fam, "infEvento", "xMotivo" >>, "", << "Evento registrado" >>),
       Entry(<< "retEvento" \o fam, "infEvento", "nProt" >>, "", << "135200000000005" >>) >>
\* Every subset of the data of each primary document
PrimaryDocs ==
    Family("nfeProc", namespaces.nfe, NFeEntries, Range(NFeEntries))
        \cup Family("cteProc", namespaces.cte, CTeEntries, Range(CTeEntries))
        \cup Family("mdfeProc", namespaces.mdfe, MDFeEntries, Range(MDFeEntries))
        \cup Family("CompNfse", namespaces.nfse, NFSeEntries, Range(NFSeEntries))

\* Every subset of the data of a bare event, with every timestamp
EventoDocs ==
    UNION { Family("evento", namespaces.nfe, EventoEntries(dh), Range(EventoEntries(dh))) :
                dh \in TimestampTexts }

\* The data of the event proper, the protocol block being whole, and the
\* data of the protocol block, the event being whole
InnerPart(entries) == { entries[i] : i \in 1..8 }
RetPart(entries) == { entries[i] : i \in 9..Len(entries) }

ProcEventoNFeDocs ==
    LET whole == ProcEventoNFeEntries("evento", DhEmi)
    IN  Family("procEventoNFe", namespaces.nfe, whole, InnerPart(whole))
            \cup Family("procEventoNFe", namespaces.nfe, whole, RetPart(whole))
            \cup { Doc("procEventoNFe", namespaces.nfe, ProcEventoNFeEntries("evento", dh)) :
                      dh \in TimestampTexts }
            \cup UNION { LET other == ProcEventoNFeEntries(inner, DhEmi)
                         IN  Family("procEventoNFe", namespaces.nfe, other,
                                    { other[1], other[2], other[5] }) :
                            inner \in { "eventocte", "eventomdf", "eventoNFe" } }

ProcEventoCTeMDFeDocs ==
    LET cte == ProcEventoFamEntries("CTe", DhEmi)
        mdfe == ProcEventoFamEntries("MDFe", DhEmi)
    IN  Family("procEventoCTe", namespaces.cte, cte, InnerPart(cte))
            \cup Family("procEventoCTe", namespaces.cte, cte, RetPart(cte))
            \cup Family("procEventoMDFe", namespaces.mdfe, mdfe, InnerPart(mdfe))
            \cup Family("procEventoMDFe", namespaces.mdfe, mdfe, RetPart(mdfe))
            \cup { Doc("procEventoCTe", namespaces.cte, ProcEventoFamEntries("CTe", dh)) :
                      dh \in TimestampTexts }

\* Whole documents under another root name or in another namespace
MismatchedDocs ==
    { Doc(t, u, NFeEntries) : t \in { "nfeProc", "NFEPROC", "cteProc" }, u \in RootUris }
        \cup { Doc(t, u, ProcEventoNFeEntries("evento", DhEmi)) :
                  t \in { "procEventoNFe", "PROCEVENTONFE", "xprocEventoNFe", "proceventonfe",
                          "procEventoCTe" },
                  u \in RootUris }
        \cup { Doc(t, u, ProcEventoFamEntries("CTe", DhEmi)) :
                  t \in { "procEventoCTe", "PROCEVENTOCTE", "xprocEventoCTe", "proceventocte",
                          "procEventoMDFe" },
                  u \in RootUris }
        \cup { Doc(t, u, ProcEventoFamEntries("MDFe", DhEmi)) :
                  t \in { "procEventoMDFe", "proceventomdfe", "procEventoCTe" },
                  u \in RootUris }

Replaced(entries, i, e) == [entries EXCEPT ![i] = e]

\* Primary documents whose Id is not the prefix followed by 44 digits: a
\* short one, and the key with no prefix
OddIdDocs ==
    { Doc("nfeProc", namespaces.nfe,
          Replaced(NFeEntries, 1, Entry(<< "NFe", "infNFe" >>, "Id", id))) :
        id \in { << "NFe", "123" >>, << "35200159594315000157550010000000012062777161" >> } }
    \cup
    { Doc("cteProc", namespaces.cte,
          Replaced(CTeEntries, 1, Entry(<< "CTe", "infCte" >>, "Id", id))) :
        id \in { << "CTe", "123" >>, << "35200159594315000157570010000000011000000015" >> } }
    \cup
    { Doc("mdfeProc", namespaces.mdfe,
          Replaced(MDFeEntries, 1, Entry(<< "MDFe", "infMDFe" >>, "Id", id))) :
        id \in { << "MDFe", "123" >>, << "35200159594315000157580010000000011000000019" >> } }

\* An MDF-e with a dest block
MDFeDestEntries ==
    << MDFeEntries[1], MDFeEntries[2], MDFeEntries[3],
       Entry(<< "MDFe", "infMDFe", "dest", "CNPJ" >>, "", << "11222333000181" >>),
       Entry(<< "MDFe", "infMDFe", "dest", "CPF" >>, "", << "52998224725" >>),
       MDFeEntries[4], MDFeEntries[5] >>

MDFeDestDocs ==
    Family("mdfeProc", namespaces.mdfe, MDFeDestEntries,
           { MDFeDestEntries[4], MDFeDestEntries[5], MDFeDestEntries[6] })

\* CT-e, MDF-e and NFS-e whose only date is a dEmi
LegacyDateDocs ==
    { Doc("cteProc", namespaces.cte,
          Replaced(CTeEntries, 2,
                   Entry(<< "CTe", "infCte", "ide", "dEmi" >>, "", << "2020-01-31" >>))),
      Doc("mdfeProc", namespaces.mdfe,
          Replaced(MDFeEntries, 2,
                   Entry(<< "MDFe", "infMDFe", "ide", "dEmi" >>, "", << "2020-01-31" >>))),
      Doc("CompNfse", namespaces.nfse,
          Replaced(NFSeEntries, 3,
                   Entry(<< "Nfse", "InfNfse", "dEmi" >>, "", << "2020-01-31" >>))) }

\* An inner event node named inner; with an info block it holds nSeqEvento seq
InnerNode(inner, seq, with_info) ==
    IF with_info
    THEN << Entry(<< inner >>, "versao", << "1.00" >>),
            Entry(<< inner, "infEvento" >>, "Id", << "ID", "110111", "352001", "01" >>),
            Entry(<< inner, "infEvento", "nSeqEvento" >>, "", << seq >>) >>
    ELSE << Entry(<< inner >>, "versao", << "1.00" >>) >>

InnerNames == { "evento", "eventocte", "eventomdf" }

\* procEventoNFe documents with two inner event nodes of different names, in
\* either order, each with or without its info block
TwoEventDocs ==
    UNION { { Doc("procEventoNFe", namespaces.nfe,
                  InnerNode(a, "1", ia) \o InnerNode(b, "2", ib)) :
                b \in InnerNames \ { a }, ia \in BOOLEAN, ib \in BOOLEAN } :
            a \in InnerNames }

\* Documents with a block nested in a block of its own name, each holding
\* its own datum; the inner block comes first in the document
NestedEntries ==
    << NFeEntries[1],
       Entry(<< "NFe", "infNFe", "ide", "ide", "dhEmi" >>, "", << "2020-01-31" >>),
       NFeEntries[2],
       Entry(<< "NFe", "infNFe", "emit", "emit", "CNPJ" >>, "", << "11222333000181" >>),
       NFeEntries[4],
       NFeEntries[5],
       Entry(<< "protNFe", "protNFe", "infProt", "nProt" >>, "", << "135200000000009" >>),
       NFeEntries[7] >>

NestedNfseEntries ==
    << NFSeEntries[1],
       Entry(<< "Nfse", "InfNfse", "InfNfse", "Numero" >>, "", << "77" >>),
       NFSeEntries[2], NFSeEntries[3], NFSeEntries[5], NFSeEntries[6] >>

NestedDocs ==
    Family("nfeProc", namespaces.nfe, NestedEntries,
           { NestedEntries[3], NestedEntries[5], NestedEntries[8] })
        \cup Family("CompNfse", namespaces.nfse, NestedNfseEntries, { NestedNfseEntries[3] })

Docs ==
    RejectedArgs
        \cup { Doc(t, u, << >>) : t \in RootNames, u \in RootUris }
        \cup PrimaryDocs \cup EventoDocs \cup ProcEventoNFeDocs
        \cup ProcEventoCTeMDFeDocs \cup MismatchedDocs
        \cup OddIdDocs \cup MDFeDestDocs \cup LegacyDateDocs \cup TwoEventDocs
        \cup NestedDocs

----------------------------------------------------------------------------
(* parse_documento_fiscal_string, statement by statement *)

NoRoot == Malformed

NotReturned == [pending |-> PyNone]

Unbound == [bound |-> FALSE, dir |-> << >>, name |-> << >>]

\* No call of process_and_save_base64 is under way
BatchIdle ==
    /\ json_data = [type |-> "NoneType"]
    /\ exception = ""
    /\ data = << >>
    /\ idx = 1
    /\ contador = 1
    /\ file_name = << >>
    /\ file_path = Unbound
    /\ dirs = { }
    /\ files = { }
    /\ status = "idle"
    /\ outcomes = << >>

\* No concurrent calls are under way
NoFrames ==
    /\ self_namespaces = [p \in Parsers |-> DocumentoFiscalParser.namespaces]
    /\ frames = << >>

\* No call of download_xmls is under way, and no item is being followed
DownloadIdle ==
    /\ download = [pc |-> "idle"]
    /\ requested = << >>
    /\ codec = [pc |-> "idle"]

Init ==
    /\ NoFrames
    /\ DownloadIdle
    /\ xml_string \in Docs
    /\ pc = "parse"
    /\ root = NoRoot
    /\ tipo_documento = PyNone
    /\ processor = NoProcessor
    /\ resultado = NotReturned
    /\ BatchIdle

\* root = self._parse_xml(xml_string), and the handlers of ET.ParseError and
\* of Exception
ParseXml ==
    /\ pc = "parse"
    /\ IF xml_string.wf
       THEN /\ root' = xml_string
            /\ pc' = "identify"
            /\ UNCHANGED resultado
       ELSE /\ resultado' = ErroDoParse(xml_string)
            /\ pc' = "returned"
            /\ UNCHANGED root
    /\ UNCHANGED << xml_string, tipo_documento, processor, bvars, cvars, dvars, evars >>

\* tipo_documento = self._identificar_tipo_documento(root)
Identificar ==
    /\ pc = "identify"
    /\ tipo_documento' = _identificar_tipo_documento(root)
    /\ pc' = "dispatch"
    /\ UNCHANGED << xml_string, root, processor, resultado, bvars, cvars, dvars, evars >>

\* processor = processors.get(tipo_documento), and the return of either branch
Dispatch ==
    /\ pc = "dispatch"
    /\ processor' = ProcessorsGet(tipo_documento)
    /\ resultado' = IF processor' # NoProcessor
                    THEN Invoke(Self(self_namespaces.parserDFe), processor', root,
                                tipo_documento)
                    ELSE ErroNaoIdentificado
    /\ pc' = "returned"
    /\ UNCHANGED << xml_string, root, tipo_documento, bvars, cvars, dvars, evars >>

Next == ParseXml \/ Identificar \/ Dispatch

Spec == Init /\ [][Next]_vars
----------------------------------------------------------------------------
(* GerenciadorArquivos.gerar_nome_arquivo_temp *)

\* hashlib.sha256(dados).hexdigest(), taken to be free of collisions
Sha256Hex(dados) == << "sha256(" >> \o dados \o << ")" >>

\* t is what time.time() returned
gerar_nome_arquivo_temp(base, extensao, t) ==
    << "temp_" >> \o Sha256Hex(base \o << "_", t >>) \o << "." >> \o extensao

\* The values time.time() may return
Times == { "1730000000.25", "1730000003.5" }

----------------------------------------------------------------------------
(* SiegApiHandler.process_and_save_base64: the for loop over data.  An    *)
(* item is what base64.b64decode(item).decode('utf-8') makes of it: not a *)
(* str, a str that is not ASCII, not base64, not UTF-8 once decoded, or   *)
(* the text of a document.                                                *)

Item(kind, doc) == [kind |-> kind, doc |-> doc]

MaxItems == 3

output_dir == << "out" >>

\* os.path.join(dir, name), kept as its two operands
Join(dir, name) == [bound |-> TRUE, dir |-> dir, name |-> name]

Without(entries, i) == SelectSeq(entries, LAMBDA e : e # entries[i])

\* The documents of the batches
BatchDocs ==
    { Malformed,
      Doc("Signature", namespaces.ds, << >>),
      Doc("nfeProc", namespaces.nfe, NFeEntries),
      Doc("nfeProc", namespaces.nfe, Without(NFeEntries, 4)),
      Doc("evento", namespaces.nfe, EventoEntries(DhEmi)),
      Doc("procEventoNFe", namespaces.nfe, ProcEventoNFeEntries("evento", DhEmi)),
      Doc("procEventoCTe", namespaces.cte, ProcEventoFamEntries("CTe", DhEmi)),
      Doc("procEventoCTe", namespaces.cte, << >>) }

Items ==
    { Item("not_str", Malformed), Item("not_ascii", Malformed),
      Item("not_base64", Malformed), Item("not_utf8", Malformed) }
        \cup { Item("text", d) : d \in BatchDocs }

\* The exceptions the for loop's except clause names
Caught == { "binascii.Error", "TypeError" }

\* One pass of the loop body on item, from the locals and the directories
\* it starts with: the exception that ended it ("" when none did), and
\* what it left behind.  res is what parse_documento_fiscal_string returns
\* for the item's text.
Iteration(item, res, cont, fname, fpath, ds, t) ==
    LET out(exc, r, name, path, ds2, saved) ==
            [ exc |-> exc, resultado |-> r, file_name |-> name, file_path |-> path,
              dirs |-> ds2, saved |-> saved ]
        \* with open(file_path, "wb") as xml_file: xml_file.write(...)
        open(name, path, ds2) ==
            IF ~path.bound THEN out("UnboundLocalError", res, name, path, ds2, FALSE)
            ELSE IF path.dir \notin ds2
                 THEN out("FileNotFoundError", res, name, path, ds2, FALSE)
            ELSE out("", res, name, path, ds2, TRUE)
    IN  IF item.kind = "not_str" THEN out("TypeError", NotReturned, fname, fpath, ds, FALSE)
        ELSE IF item.kind = "not_ascii"
        THEN out("ValueError", NotReturned, fname, fpath, ds, FALSE)
        ELSE IF item.kind = "not_base64"
        THEN out("binascii.Error", NotReturned, fname, fpath, ds, FALSE)
        ELSE IF item.kind = "not_utf8"
        THEN out("UnicodeDecodeError", NotReturned, fname, fpath, ds, FALSE)
        ELSE
        LET has_cnpj == "cnpj_emitente" \in DOMAIN res
            local_dir == IF has_cnpj
                         THEN output_dir \o << "\\" >> \o Str(res.cnpj_emitente)
                         ELSE output_dir
            eventos == local_dir \o << "\\eventos" >>
            ds2 == IF has_cnpj THEN ds \cup { local_dir, eventos } ELSE ds
        IN  \* "cnpj_emitente" in None
            IF res = NoneResult THEN out("TypeError", res, fname, fpath, ds, FALSE)
            ELSE IF "erro" \in DOMAIN res
            THEN open(gerar_nome_arquivo_temp(<< ToString(cont) >>, << "xml" >>, t),
                      fpath, ds2)
            ELSE IF "isevent" \in DOMAIN res
            THEN IF res.isevent = << "1" >>
                 THEN IF { "chave_acesso", "tipo_documento", "tipo_evento",
                           "sequencia_evento" } \subseteq DOMAIN res
                      THEN LET name == Str(res.chave_acesso) \o << "_" >>
                                           \o Str(res.tipo_documento) \o << "_" >>
                                           \o Str(res.tipo_evento) \o << "_" >>
                                           \o Str(res.sequencia_evento) \o << ".xml" >>
                           IN  open(name, Join(eventos, name), ds2)
                      ELSE out("KeyError", res, << >>, fpath, ds2, FALSE)
                 \* os.path.jodin
                 ELSE out("AttributeError", res,
                          Str(res.chave_acesso) \o << "_" >> \o Str(res.tipo_documento)
                              \o << ".xml" >>, fpath, ds2, FALSE)
            ELSE LET name == Str(res.chave_acesso) \o << "_" >> \o Str(res.tipo_documento)
                                 \o << ".xml" >>
                 IN  open(name, Join(local_dir, name), ds2)

\* open(file_path, "wb") and write: the file holds the item's text
Write(fs, path, content) ==
    { f \in fs : f.path # path } \cup { [path |-> path, content |-> content] }

ParserIdle ==
    /\ xml_string = Malformed
    /\ pc = "idle"
    /\ root = NoRoot
    /\ tipo_documento = PyNone
    /\ processor = NoProcessor
    /\ resultado = NotReturned

\* None, as a value of json_data or of base64_data
NoData == [type |-> "NoneType"]

\* The values json_data may hold.  A list is its items; a dict is its keys,
\* which are what `for item in data` takes; a str is its characters, each
\* the item it makes, and what json.loads makes of the whole; a number is
\* its value, and has neither items nor a length.
PyList(items) == [type |-> "list", items |-> items]

PyDict(keys) == [type |-> "dict", items |-> keys]

PyInt(n) == [type |-> "int", value |-> n]

PyStr(chars, loads) == [type |-> "str", items |-> chars, loads |-> loads]

\* The character a JSON text opens with, as an item: a digit is no whole
\* group of base64; a bracket, a brace or a quote is outside the alphabet
\* and skipped, which leaves the empty text, no document
Opening(v) ==
    IF v.type = "int" THEN Item("not_base64", Malformed) ELSE Item("text", Malformed)

\* A str that is the JSON text of the value v.  Of its characters the first
\* stands for all: the str is not empty, and it is never iterated, being a
\* str that json.loads replaces
JsonText(v) == PyStr(<< Opening(v) >>, Decoded(v))

\* The empty str, which is not JSON
EmptyStr == PyStr(<< >>, Raises("JSONDecodeError"))

\* A str that is not JSON: '{'
NotJson == PyStr(<< Item("text", Malformed) >>, Raises("JSONDecodeError"))

\* A str of base64 characters: as data each character is an item that
\* base64 rejects; as JSON text it is none
Letters(n) == PyStr([i \in 1..n |-> Item("not_base64", Malformed)], Raises("JSONDecodeError"))

\* json.loads(json_data)
JsonLoads(v) == v.loads

\* Lines 91-102: data = json.loads(json_data) if isinstance(json_data, str)
\* else json_data, len(data), os.makedirs(output_dir).  JSONDecodeError is
\* turned into ValueError; a value without a length raises TypeError in the
\* try, which the except clause does not name.
Load(v) ==
    LET loaded == IF v.type = "str" THEN JsonLoads(v) ELSE Decoded(v)
    IN  IF ~loaded.ok THEN Raises("ValueError")
        ELSE IF "items" \notin DOMAIN loaded.value THEN Raises("TypeError")
        ELSE Decoded(loaded.value.items)

\* The arguments of the calls: every list of up to MaxItems items, and of
\* the shorter lists the dict with them as keys and the JSON text of each;
\* (the keys of a JSON object are strs); a str that is not JSON, a number,
\* and the JSON text of a number and of a str
JsonData ==
    LET lists(m) == UNION { [1..n -> Items] : n \in 0..m }
        keys == { l \in lists(2) : \A i, j \in DOMAIN l : i # j => l[i] # l[j] }
    IN  { PyList(l) : l \in lists(MaxItems) }
            \cup { PyDict(l) : l \in keys }
            \cup { JsonText(PyList(l)) : l \in lists(1) }
            \cup { JsonText(PyDict(l)) : l \in lists(1) \ { << Item("not_str", Malformed) >> } }
            \cup { EmptyStr, NotJson, PyInt(0), PyInt(5), JsonText(PyInt(5)),
                   JsonText(Letters(2)) }

\* The call starts with the locals it will assign not yet bound
Called(arg, ds) ==
    /\ json_data = arg
    /\ data = << >>
    /\ idx = 1
    /\ contador = 1
    /\ file_name = << >>
    /\ file_path = Unbound
    /\ dirs = ds
    /\ files = { }
    /\ status = "load"
    /\ exception = ""
    /\ outcomes = << >>

InitBatch ==
    /\ ParserIdle
    /\ NoFrames
    /\ DownloadIdle
    /\ \E arg \in JsonData, ds \in { { }, { output_dir \o << "\\eventos" >> } } :
         Called(arg, ds)

\* The statements before the loop, lines 91-102
LoadData ==
    /\ status = "load"
    /\ \E loaded \in { Load(json_data) } :
         IF loaded.ok
         THEN /\ data' = loaded.value
              /\ dirs' = dirs \cup { output_dir }
              /\ status' = "loop"
              /\ UNCHANGED exception
         ELSE /\ exception' = loaded.exc
              /\ status' = "raised"
              /\ UNCHANGED << data, dirs >>
    /\ UNCHANGED << json_data, idx, contador, file_name, file_path, files, outcomes, pvars,
                    cvars, dvars, evars >>

\* One iteration of `for item in data`, with its except clause
ProcessItem ==
    /\ status = "loop"
    /\ idx <= Len(data)
    /\ \E t \in Times, res \in { parse_documento_fiscal_string(DocumentoFiscalParser, data[idx].doc) } :
        \E it \in { Iteration(data[idx], res, contador, file_name, file_path, dirs, t) } :
            /\ file_name' = it.file_name
            /\ file_path' = it.file_path
            /\ dirs' = it.dirs
            /\ contador' = IF it.saved THEN contador + 1 ELSE contador
            /\ files' = IF it.saved THEN Write(files, it.file_path, data[idx].doc) ELSE files
            /\ status' = IF it.exc = "" \/ it.exc \in Caught THEN "loop" ELSE "raised"
            /\ exception' = IF it.exc = "" \/ it.exc \in Caught THEN "" ELSE it.exc
            /\ outcomes' = Append(outcomes,
                                  [ exc |-> it.exc, resultado |-> it.resultado,
                                    file_name |-> it.file_name, file_path |-> it.file_path,
                                    saved |-> it.saved ])
    /\ idx' = idx + 1
    /\ UNCHANGED << json_data, data, pvars, cvars, dvars, evars >>

\* The loop is exhausted and the method returns
LoopEnd ==
    /\ status = "loop"
    /\ idx > Len(data)
    /\ status' = "returned"
    /\ UNCHANGED << json_data, data, idx, contador, file_name, file_path, dirs, files,
                    exception, outcomes, pvars, cvars, dvars, evars >>

NextBatch == LoadData \/ ProcessItem \/ LoopEnd

SpecBatch == InitBatch /\ [][NextBatch]_vars
----------------------------------------------------------------------------
(* Properties of parse_documento_fiscal_string, under Spec *)

\* The call got past _parse_xml and _identificar_tipo_documento
Classified == pc \in { "dispatch", "returned" } /\ root.wf

\* The table entries whose suffix the lower-cased tag ends with
MatchingEntries(tag) ==
    { i \in DOMAIN tipo_mapping : EndsWith(Lower(tag), Chars(tipo_mapping[i][1])) }

\* The keys of a record that carry business data
BusinessFields ==
    { "tipo_documento", "chave_acesso", "cnpj_emitente", "destinatario", "data_emissao",
      "protocolo", "isevent", "tipo_evento", "sequencia_evento", "data_evento",
      "descricao_evento", "status_processamento", "motivo", "status", "data_registro",
      "mdfe" }

\* C1: whatever its argument, parse_documento_fiscal_string returns a dict to
\* its caller, for each of the eight kinds: when the extractor it dispatched
\* to fails the value returned is a dict carrying erro, never None.
C1_ReturnsARecord ==
    pc = "returned" => /\ "NoneType" \notin DOMAIN resultado
                       /\ DOMAIN resultado \cap ({ "erro" } \cup BusinessFields) # { }

\* C2: a dict returned by parse_documento_fiscal_string carries erro and no
\* business field, or business fields and no erro: never both, never neither.
C2_ErroOrBusinessFields ==
    pc = "returned" /\ resultado # NoneResult =>
        IF "erro" \in DOMAIN resultado
        THEN DOMAIN resultado \cap BusinessFields = { }
        ELSE DOMAIN resultado \cap BusinessFields # { }

\* An extractor was dispatched to and failed: its dict carries erro
C2_ExtractorFailed ==
    /\ pc = "returned"
    /\ processor = "_processar_proc_evento"
    /\ "erro" \in DOMAIN resultado

\* C3: a root whose lower-cased local name is proceventonfe, proceventocte or
\* proceventomdfe is classified procEventoNFe, procEventoCTe or
\* procEventoMDFe, never NF-e, CT-e or MDF-e; and of two table entries of
\* different kinds of which one suffix is a proper suffix of the other, the
\* longer one comes first in the table.
C3_EnvelopeBeforeDocument ==
    /\ Classified =>
        LET local == Lower(Chars(root.tag))
        IN  /\ local = Chars("proceventonfe") => tipo_documento = << "procEventoNFe" >>
            /\ local = Chars("proceventocte") => tipo_documento = << "procEventoCTe" >>
            /\ local = Chars("proceventomdfe") => tipo_documento = << "procEventoMDFe" >>
    /\ \A i, j \in DOMAIN tipo_mapping :
        /\ Len(Chars(tipo_mapping[i][1])) < Len(Chars(tipo_mapping[j][1]))
        /\ EndsWith(Chars(tipo_mapping[j][1]), Chars(tipo_mapping[i][1]))
        /\ tipo_mapping[i][2] # tipo_mapping[j][2]
        => j < i

\* An enveloped CT-e event, its root name in capitals, was classified
C3_EnvelopeClassified ==
    /\ pc = "returned"
    /\ root.wf
    /\ root.tag = "PROCEVENTOCTE"
    /\ tipo_documento = << "procEventoCTe" >>

\* C4: _identificar_tipo_documento returns the kind of the first table entry
\* whose suffix the lower-cased tag ends with, None when there is none; the
\* outcome is that of the local name alone, whatever the namespace and the
\* letter case; and each of the 13 suffixes, as a root's local name, yields
\* the kind the table maps it to.
C4_FirstMatchingEntry ==
    Classified =>
        LET ms == MatchingEntries(Chars(root.tag))
        IN  /\ MatchingEntries(RootTag(root)) = ms
            /\ tipo_documento =
                   IF ms = { } THEN PyNone
                   ELSE << tipo_mapping[CHOOSE i \in ms : \A j \in ms : i <= j][2] >>
            /\ \A i \in DOMAIN tipo_mapping :
                   root.tag = tipo_mapping[i][1] => tipo_documento = << tipo_mapping[i][2] >>

\* A root named in capitals, in the namespace of another family, was
\* classified by its local name
C4_CapitalsOtherNamespace ==
    /\ pc = "returned"
    /\ root.wf
    /\ root.tag = "NFEPROC"
    /\ root.uri = namespaces.cte
    /\ tipo_documento = << "NF-e" >>

\* C5, as the code has it: for a well-formed document whose root tag ends
\* with none of the table's suffixes, the classification is None, no
\* extractor is invoked, and the dict returned is
\* {'erro': 'Tipo de documento fiscal não identificado'}, a fixed text.
C5_UnrecognizedRootFixedErro ==
    pc = "returned" /\ root.wf /\ MatchingEntries(RootTag(root)) = { } =>
        /\ tipo_documento = PyNone
        /\ processor = NoProcessor
        /\ resultado = [erro |-> << "Tipo de documento fiscal não identificado" >>]

\* A document whose root is the signature element was returned
C5_UnrecognizedRootReturned ==
    /\ pc = "returned"
    /\ root.wf
    /\ root.tag = "Signature"
    /\ MatchingEntries(RootTag(root)) = { }
    /\ "erro" \in DOMAIN resultado

\* C5, as stated: for a well-formed document whose root tag ends with none
\* of the table's suffixes, the classification is None, no extractor is
\* invoked, and the text of erro contains the root tag.
C5_ErroContainsRootTag ==
    pc = "returned" /\ root.wf /\ MatchingEntries(RootTag(root)) = { } =>
        /\ tipo_documento = PyNone
        /\ processor = NoProcessor
        /\ "erro" \in DOMAIN resultado
        /\ Len(resultado.erro) = 1
        /\ Contains(Chars(resultado.erro[1]), RootTag(root))

\* C6: each kind the classifier can return, the eight of them, has an
\* extractor in the dispatcher's table, so that the branch taken when the
\* table has no extractor is reached only with the classification None.
C6_EveryKindHasAnExtractor ==
    /\ { tipo_mapping[i][2] : i \in DOMAIN tipo_mapping } =
           { "NF-e", "CT-e", "MDF-e", "NFS-e", "Evento", "procEventoNFe",
             "procEventoCTe", "procEventoMDFe" }
    /\ \A i \in DOMAIN tipo_mapping :
           \E j \in DOMAIN processors : processors[j][1] = tipo_mapping[i][2]
    /\ pc = "returned" /\ root.wf /\ processor = NoProcessor => tipo_documento = PyNone
    /\ pc = "returned" /\ root.wf /\ tipo_documento # PyNone => processor # NoProcessor

\* An event was classified and its extractor found
C6_EventoDispatched ==
    /\ pc = "returned"
    /\ tipo_documento = << "Evento" >>
    /\ processor = "_processar_evento"

\* C7: an NF-e in which emit/CNPJ is absent yields a dict carrying erro and
\* no business field, not a dict whose cnpj_emitente is None (and so for the
\* other required fields of a primary document).
C7_MissingIssuerIsAnErro ==
    /\ pc = "returned"
    /\ tipo_documento = << "NF-e" >>
    /\ find(root, namespaces.nfe, << "emit", "CNPJ" >>) = NoElement
    => /\ "erro" \in DOMAIN resultado
       /\ DOMAIN resultado \cap BusinessFields = { }
----------------------------------------------------------------------------
(* Properties of process_and_save_base64, under SpecBatch.  outcomes[i] is *)
(* what became of data[i].                                                 *)

\* The call was left by an exception raised while item i was processed
AbortedAt(i) == status = "raised" /\ i = Len(outcomes)

\* C8: an item that is not base64, or whose bytes are not UTF-8, is a decode
\* failure of that item alone: its exception is caught inside the loop, which
\* goes on to the other items; no exception leaves the loop.
C8_DecodeFailureStaysInItem ==
    \A i \in DOMAIN outcomes :
        data[i].kind \in { "not_base64", "not_utf8" } =>
            /\ outcomes[i].exc \in Caught
            /\ ~AbortedAt(i)

\* C9: an item whose parse result is a failure (a dict carrying erro, or no
\* dict) never aborts the batch, whatever its position, the first included:
\* the loop goes on to the items after it.
C9_ParseFailureNeverAborts ==
    \A i \in DOMAIN outcomes :
        outcomes[i].resultado = NoneResult \/ "erro" \in DOMAIN outcomes[i].resultado
            => ~AbortedAt(i)

\* C10: an item whose parse result carries erro is written under the name
\* gerar_nome_arquivo_temp made for it: the path of the write is derived from
\* that name.
C10_ErroItemWrittenUnderTempName ==
    \A i \in DOMAIN outcomes :
        "erro" \in DOMAIN outcomes[i].resultado /\ outcomes[i].saved =>
            /\ \E c \in 1..i, t \in Times :
                outcomes[i].file_name =
                    gerar_nome_arquivo_temp(<< ToString(c) >>, << "xml" >>, t)
            /\ outcomes[i].file_path.name = outcomes[i].file_name

\* The parser returned a dict of business fields for the item
Succeeded(r) ==
    /\ r # NoneResult
    /\ r # NotReturned
    /\ "erro" \notin DOMAIN r

\* What the name of a successful record's file may depend on: its access
\* key, its kind and, for an event, its sequence number
NameKey(r) ==
    << r.chave_acesso, r.tipo_documento,
       IF "isevent" \in DOMAIN r /\ "sequencia_evento" \in DOMAIN r
       THEN r.sequencia_evento ELSE PyNone >>

\* C11: for every successful record, of a primary document, a bare event or
\* an enveloped event, the loop builds a file name without failing, and the
\* name depends on chave_acesso and tipo_documento alone, and on
\* sequencia_evento for an event.
C11_NameFromKeyKindSequence ==
    \A i \in DOMAIN outcomes :
        Succeeded(outcomes[i].resultado) =>
            /\ outcomes[i].exc # "KeyError"
            /\ outcomes[i].file_name # << >>
            /\ \A j \in DOMAIN outcomes :
                Succeeded(outcomes[j].resultado)
                    /\ NameKey(outcomes[j].resultado) = NameKey(outcomes[i].resultado)
                    => outcomes[j].file_name = outcomes[i].file_name

\* The characters of a str, part after part
RECURSIVE CharsOf(_)
CharsOf(v) == IF v = << >> THEN << >> ELSE Chars(Head(v)) \o CharsOf(Tail(v))

AsciiDigits == { "0", "1", "2", "3", "4", "5", "6", "7", "8", "9" }

\* C12: the chave_acesso of a successful NF-e, CT-e or MDF-e record, when
\* not None, is exactly 44 ASCII digits, the Id attribute less the prefix of
\* the kind; an Id that does not come down to 44 digits is never the
\* chave_acesso of a successful record.
C12_AccessKeyIs44Digits ==
    /\ pc = "returned"
    /\ tipo_documento \in { << "NF-e" >>, << "CT-e" >>, << "MDF-e" >> }
    /\ "erro" \notin DOMAIN resultado
    /\ resultado.chave_acesso # PyNone
    => LET cs == CharsOf(resultado.chave_acesso)
       IN  /\ Len(cs) = 44
           /\ \A i \in DOMAIN cs : cs[i] \in AsciiDigits

\* The shape YYYY-MM-DD HH:MM:SS
HasFixedShape(v) ==
    /\ Len(v) = 3
    /\ v[1] \in IsoDates
    /\ v[2] = " "
    /\ v[3] \in IsoTimes \cup { "00:00:00" }

\* C13: every date of a successful record, data_emissao of a primary
\* document and data_evento of an event, has the shape YYYY-MM-DD HH:MM:SS:
\* the date and the time of the timestamp without its zone, or the date and
\* 00:00:00 when the document gives a date alone.
C13_DatesHaveFixedShape ==
    pc = "returned" /\ resultado # NoneResult /\ "erro" \notin DOMAIN resultado =>
        \A k \in { "data_emissao", "data_evento" } \cap DOMAIN resultado :
            resultado[k] # PyNone => HasFixedShape(resultado[k])

\* The namespace of a primary kind
KindUri(tipo) ==
    CASE tipo = << "NF-e" >> -> namespaces.nfe
      [] tipo = << "CT-e" >> -> namespaces.cte
      [] tipo = << "MDF-e" >> -> namespaces.mdfe

\* A successful record of an NF-e, a CT-e or an MDF-e was returned
PrimaryRecord ==
    /\ pc = "returned"
    /\ tipo_documento \in { << "NF-e" >>, << "CT-e" >>, << "MDF-e" >> }
    /\ "erro" \notin DOMAIN resultado

\* C14: for NF-e, CT-e and MDF-e alike, when dest holds a CNPJ and a CPF the
\* destinatario of the record is the CNPJ, and when it holds a CPF alone the
\* destinatario is the CPF.
C14_RecipientCnpjThenCpf ==
    PrimaryRecord =>
        LET cnpj == find(root, KindUri(tipo_documento), << "dest", "CNPJ" >>)
            cpf  == find(root, KindUri(tipo_documento), << "dest", "CPF" >>)
        IN  /\ cnpj # NoElement /\ cpf # NoElement
                => resultado.destinatario = text(root, cnpj)
            /\ cnpj = NoElement /\ cpf # NoElement
                => resultado.destinatario = text(root, cpf)

\* C15: an NF-e, a CT-e or an MDF-e whose dest has neither a CNPJ nor a CPF
\* yields a dict carrying erro; no successful record has a destinatario that
\* is None or a placeholder.
C15_NoRecipientIsAnErro ==
    /\ pc = "returned"
    /\ tipo_documento \in { << "NF-e" >>, << "CT-e" >>, << "MDF-e" >> }
    /\ find(root, KindUri(tipo_documento), << "dest", "CNPJ" >>) = NoElement
    /\ find(root, KindUri(tipo_documento), << "dest", "CPF" >>) = NoElement
    => "erro" \in DOMAIN resultado

\* The element a primary kind takes its date from, and its dEmi
ModernDate(r, tipo) ==
    CASE tipo = << "NF-e" >>  -> find(r, namespaces.nfe, << "ide", "dhEmi" >>)
      [] tipo = << "CT-e" >>  -> find(r, namespaces.cte, << "ide", "dhEmi" >>)
      [] tipo = << "MDF-e" >> -> find(r, namespaces.mdfe, << "ide", "dhEmi" >>)
      [] tipo = << "NFS-e" >> -> find(r, namespaces.nfse, << "InfNfse", "DataEmissao" >>)

LegacyDate(r, tipo) ==
    CASE tipo = << "NF-e" >>  -> find(r, namespaces.nfe, << "ide", "dEmi" >>)
      [] tipo = << "CT-e" >>  -> find(r, namespaces.cte, << "ide", "dEmi" >>)
      [] tipo = << "MDF-e" >> -> find(r, namespaces.mdfe, << "ide", "dEmi" >>)
      [] tipo = << "NFS-e" >> -> find(r, namespaces.nfse, << "InfNfse", "dEmi" >>)

\* C16: the data_emissao of an NF-e comes from dhEmi when the document has
\* one, and from dEmi only when it has none; that of a CT-e, an MDF-e or an
\* NFS-e never comes from a dEmi: it is None when the document has no dhEmi
\* (DataEmissao for an NFS-e).
C16_LegacyDateOnlyForNFe ==
    /\ pc = "returned"
    /\ tipo_documento \in { << "NF-e" >>, << "CT-e" >>, << "MDF-e" >>, << "NFS-e" >> }
    /\ "erro" \notin DOMAIN resultado
    => LET modern == ModernDate(root, tipo_documento)
           legacy == LegacyDate(root, tipo_documento)
       IN  /\ modern # NoElement =>
                resultado.data_emissao = SplitT0(text(root, modern))
           /\ modern = NoElement /\ legacy # NoElement =>
                resultado.data_emissao =
                    IF tipo_documento = << "NF-e" >> THEN text(root, legacy) ELSE PyNone
           /\ modern = NoElement /\ legacy = NoElement =>
                resultado.data_emissao = PyNone

\* An NF-e with both a dhEmi and a dEmi was extracted
C16_BothDatesPresent ==
    /\ pc = "returned"
    /\ tipo_documento = << "NF-e" >>
    /\ "erro" \notin DOMAIN resultado
    /\ ModernDate(root, tipo_documento) # NoElement
    /\ LegacyDate(root, tipo_documento) # NoElement
    /\ resultado.data_emissao = << "2024-12-09" >>

\* The four elements _processar_evento requires are all in the document
EventoComplete(r) ==
    \A name \in { "chNFe", "tpEvento", "xEvento", "dhEvento" } :
        find(r, namespaces.nfe, << name >>) # NoElement

\* C17: the extractor of the bare Evento gives a record without erro only
\* when chNFe, tpEvento, xEvento and dhEvento are all in the document; when
\* one of them is missing the record holds erro and nothing else.
C17_EventoNeedsFourElements ==
    pc = "returned" /\ tipo_documento = << "Evento" >> =>
        /\ "erro" \notin DOMAIN resultado => EventoComplete(root)
        /\ ~EventoComplete(root) => DOMAIN resultado = { "erro" }

\* An Evento that lacks only its xEvento was refused
C17_EventoWithoutXEvento ==
    /\ pc = "returned"
    /\ tipo_documento = << "Evento" >>
    /\ find(root, namespaces.nfe, << "xEvento" >>) = NoElement
    /\ \A name \in { "chNFe", "tpEvento", "dhEvento" } :
           find(root, namespaces.nfe, << name >>) # NoElement
    /\ text(root, find(root, namespaces.nfe, << "dhEvento" >>)) = DhEmi
    /\ DOMAIN resultado = { "erro" }

\* The namespace of each enveloped event kind
EnvelopeUri(tipo) ==
    CASE tipo = << "procEventoNFe" >>  -> namespaces.nfe
      [] tipo = << "procEventoCTe" >>  -> namespaces.cte
      [] tipo = << "procEventoMDFe" >> -> namespaces.mdfe

EnvelopeKinds == { << "procEventoNFe" >>, << "procEventoCTe" >>, << "procEventoMDFe" >> }

\* C18: for each of the three enveloped event kinds, a record returned for a
\* document whose dhEvento holds a text that is no ISO timestamp is an erro
\* record; no record without erro carries the text as it was read.
C18_UnparseableDhEventoIsAnErro ==
    /\ pc = "returned"
    /\ tipo_documento \in EnvelopeKinds
    /\ resultado # NoneResult
    /\ LET dh == find(root, EnvelopeUri(tipo_documento), << "dhEvento" >>)
       IN  /\ dh # NoElement
           /\ text(root, dh) # PyNone
           /\ ~IsIsoFormat(text(root, dh))
    => "erro" \in DOMAIN resultado

\* The whole enveloped event of each kind, and the name of its results block
WholeEvent(tipo) ==
    CASE tipo = << "procEventoNFe" >>  -> ProcEventoNFeEntries("evento", DhEmi)
      [] tipo = << "procEventoCTe" >>  -> ProcEventoFamEntries("CTe", DhEmi)
      [] tipo = << "procEventoMDFe" >> -> ProcEventoFamEntries("MDFe", DhEmi)

RetEventoName(tipo) ==
    CASE tipo = << "procEventoNFe" >>  -> "retEvento"
      [] tipo = << "procEventoCTe" >>  -> "retEventoCTe"
      [] tipo = << "procEventoMDFe" >> -> "retEventoMDFe"

\* C19: an enveloped event whose event proper is whole, and whose results
\* block is absent or lacks cStat or xMotivo, is extracted all the same:
\* a record is returned and it holds no erro.
C19_MissingStatusIsTolerated ==
    /\ pc = "returned"
    /\ tipo_documento \in EnvelopeKinds
    /\ root.tag = tipo_documento[1]
    /\ root.uri = EnvelopeUri(tipo_documento)
    /\ InnerPart(WholeEvent(tipo_documento)) \subseteq Range(root.els)
    /\ LET uri == EnvelopeUri(tipo_documento)
           ret == find(root, uri, << RetEventoName(tipo_documento) >>)
       IN  \/ ret = NoElement
           \/ FindIn(root, uri, ret, << "cStat" >>, TRUE) = NoElement
           \/ FindIn(root, uri, ret, << "xMotivo" >>, TRUE) = NoElement
    => resultado # NoneResult /\ "erro" \notin DOMAIN resultado

\* C20: whenever the root tag is classified as procEventoNFe, procEventoCTe
\* or procEventoMDFe, the extractor dispatched resolves that same family from
\* the root tag: a whole event of that family in the family's namespace is
\* extracted, whatever the spelling of the root tag that was classified.
C20_ExtractorResolvesClassifiedFamily ==
    /\ pc = "returned"
    /\ tipo_documento \in EnvelopeKinds
    /\ root.uri = EnvelopeUri(tipo_documento)
    /\ Range(WholeEvent(tipo_documento)) \subseteq Range(root.els)
    => resultado # NoneResult /\ "erro" \notin DOMAIN resultado

\* The inner event node of _processar_proc_evento and its info block
InnerEvento(r, uri) ==
    IF find(r, uri, << "evento" >>) # NoElement THEN find(r, uri, << "evento" >>)
    ELSE IF find(r, uri, << "eventocte" >>) # NoElement THEN find(r, uri, << "eventocte" >>)
    ELSE find(r, uri, << "eventomdf" >>)

InfEventoOf(r, uri) == FindIn(r, uri, InnerEvento(r, uri), << "infEvento" >>, TRUE)

\* The protocol number of a primary document
ProtocolPath(tipo) ==
    CASE tipo = << "NF-e" >>  -> << "protNFe", "infProt", "nProt" >>
      [] tipo = << "CT-e" >>  -> << "protCTe", "infProt", "nProt" >>
      [] tipo = << "MDF-e" >> -> << "protMDFe", "infProt", "nProt" >>

\* C21: an optional field that the document lacks is in the record, as None:
\* protocolo of an NF-e, CT-e or MDF-e without nProt, and each field of campos
\* whose element the info block of a procEventoNFe lacks.
C21_AbsentOptionalFieldIsNull ==
    /\ PrimaryRecord /\ find(root, KindUri(tipo_documento), ProtocolPath(tipo_documento)) = NoElement
          => "protocolo" \in DOMAIN resultado /\ resultado.protocolo = PyNone
    /\ pc = "returned" /\ tipo_documento = << "procEventoNFe" >> /\ "erro" \notin DOMAIN resultado
          => \A i \in DOMAIN campos :
                FindIn(root, namespaces.nfe, InfEventoOf(root, namespaces.nfe),
                       << campos[i][2] >>, TRUE) = NoElement
                => /\ campos[i][1] \in DOMAIN resultado
                   /\ resultado[campos[i][1]] = PyNone
-----------------------------------------------------------------------------
(* Calls of parse_documento_fiscal_string under way at once, each at its   *)
(* own statement, on one parser object or on several                       *)

MaxCalls == 2

Calls == 1..MaxCalls

\* A malformed text, a document of a kind whose extractor builds its own
\* namespace map, and a document for each extractor that reads self.namespaces
ConcDocs ==
    { Malformed,
      Doc("cteProc", namespaces.cte, << >>),
      Doc("evento", namespaces.nfe, EventoEntries(DhEmi)),
      Doc("procEventoNFe", namespaces.nfe, ProcEventoNFeEntries("evento", DhEmi)),
      Doc("procEventoCTe", namespaces.cte, ProcEventoFamEntries("CTe", DhEmi)) }

\* The locals of a call that has just been entered on the parser object p
\* with xml
Frame(p, xml) ==
    [ self |-> p, xml_string |-> xml, pc |-> "parse", root |-> NoRoot,
      tipo_documento |-> PyNone, processor |-> NoProcessor, resultado |-> NotReturned ]

InitConc ==
    /\ ParserIdle
    /\ BatchIdle
    /\ DownloadIdle
    /\ self_namespaces = [p \in Parsers |-> DocumentoFiscalParser.namespaces]
    /\ frames \in [Calls -> { Frame(p, xml) : p \in Parsers, xml \in ConcDocs }]

\* root = self._parse_xml(xml_string) in call c, and the handlers of
\* ET.ParseError and of Exception
ConcParseXml(c) ==
    /\ frames[c].pc = "parse"
    /\ frames' = [frames EXCEPT ![c] =
                    IF frames[c].xml_string.wf
                    THEN [@ EXCEPT !.root = frames[c].xml_string, !.pc = "identify"]
                    ELSE [@ EXCEPT !.resultado = ErroDoParse(frames[c].xml_string),
                                   !.pc = "returned"]]
    /\ UNCHANGED << self_namespaces, pvars, bvars, dvars, evars >>

\* The classification in call c, were it to keep the namespace of the root in
\* self.namespaces, under the prefix the event lookups use
ConcIdentificarGuardaNamespace(c) ==
    /\ frames[c].pc = "identify"
    /\ frames' = [frames EXCEPT ![c] =
                    [@ EXCEPT !.tipo_documento = _identificar_tipo_documento(frames[c].root),
                              !.pc = "dispatch"]]
    /\ self_namespaces' = [self_namespaces EXCEPT ![frames[c].self].nfe = frames[c].root.uri]
    /\ UNCHANGED << pvars, bvars, dvars, evars >>

\* tipo_documento = self._identificar_tipo_documento(root) in call c
ConcIdentificar(c) ==
    /\ frames[c].pc = "identify"
    /\ frames' = [frames EXCEPT ![c] =
                    [@ EXCEPT !.tipo_documento = _identificar_tipo_documento(frames[c].root),
                              !.pc = "dispatch"]]
    /\ UNCHANGED << self_namespaces, pvars, bvars, dvars, evars >>

\* The lookup in processors and the return of either branch, in call c: the
\* extractor reads self.namespaces as the object holds it at this step
ConcDispatch(c) ==
    /\ frames[c].pc = "dispatch"
    /\ \E name \in { ProcessorsGet(frames[c].tipo_documento) } :
         frames' = [frames EXCEPT ![c] =
                      [@ EXCEPT !.processor = name,
                                !.resultado =
                                    IF name # NoProcessor
                                    THEN Invoke(Self(self_namespaces[frames[c].self]), name,
                                                frames[c].root, frames[c].tipo_documento)
                                    ELSE ErroNaoIdentificado,
                                !.pc = "returned"]]
    /\ UNCHANGED << self_namespaces, pvars, bvars, dvars, evars >>

NextConc == \E c \in Calls : ConcParseXml(c) \/ ConcIdentificar(c) \/ ConcDispatch(c)

SpecConc == InitConc /\ [][NextConc]_vars

\* C22: calls share no mutable state.  Every parser object is as __init__
\* left it whatever calls have run on it; the record a call returns is the
\* one a call alone on a new parser gives for the document; and two calls on
\* the same document return the same record, whatever ran before, after or
\* in between, on the same parser or on another.
C22_CallsShareNoState ==
    /\ \A p \in Parsers : Self(self_namespaces[p]) = DocumentoFiscalParser
    /\ \A c \in DOMAIN frames :
          frames[c].pc = "returned" =>
              frames[c].resultado =
                  parse_documento_fiscal_string(DocumentoFiscalParser, frames[c].xml_string)
    /\ \A c, d \in DOMAIN frames :
          /\ frames[c].pc = "returned" /\ frames[d].pc = "returned"
          /\ frames[c].xml_string = frames[d].xml_string
          => frames[c].resultado = frames[d].resultado

\* An extractor that reads self.namespaces has returned a record in one call
\* after another call, on another document and the same parser, had returned
\* its own
C22_ReturnedWhileOtherRuns ==
    \E c, d \in DOMAIN frames :
        /\ frames[c].pc = "returned"
        /\ frames[c].processor = "_processar_proc_evento"
        /\ "erro" \notin DOMAIN frames[c].resultado
        /\ frames[d].pc = "returned"
        /\ frames[d].processor = "parse_cte"
        /\ frames[d].self = frames[c].self

\* The call returned a record with no erro in it
ReturnedRecord ==
    /\ pc = "returned"
    /\ resultado # NoneResult
    /\ "erro" \notin DOMAIN resultado

\* C23: the tipo_documento of every record without erro is the kind that
\* _identificar_tipo_documento returned for the document's root.
C23_RecordCarriesClassifiedKind ==
    ReturnedRecord =>
        /\ "tipo_documento" \in DOMAIN resultado
        /\ resultado.tipo_documento = tipo_documento

EventKinds == { << "Evento" >> } \cup EnvelopeKinds

\* C24: a record without erro carries isevent = '1' exactly when the
\* document was classified as Evento, procEventoNFe, procEventoCTe or
\* procEventoMDFe; the records of NF-e, CT-e, MDF-e and NFS-e have no isevent.
C24_EventMarkerIffEventKind ==
    ReturnedRecord =>
        /\ tipo_documento \in EventKinds =>
              "isevent" \in DOMAIN resultado /\ resultado.isevent = << "1" >>
        /\ tipo_documento \notin EventKinds => "isevent" \notin DOMAIN resultado

\* A bare Evento was extracted and its record carries the marker
C24_EventoMarked ==
    /\ ReturnedRecord
    /\ tipo_documento = << "Evento" >>
    /\ "isevent" \in DOMAIN resultado
    /\ resultado.isevent = << "1" >>
-----------------------------------------------------------------------------
(* One item of data, from the text the service encoded to the bytes        *)
(* process_and_save_base64 writes: base64.b64decode(item).decode('utf-8'), *)
(* the parse of the text, the naming of its file, and the write of         *)
(* texto_decodificado.encode("utf-8").  A text is a sequence of code       *)
(* points, bytes are numbers below 256, an item is a sequence of           *)
(* characters.                                                             *)

MaxLen == 3

\* Code points at the ends of the one, two, three and four byte ranges, and
\* A, e acute, the euro sign and an emoji
CodePoints == { 65, 127, 128, 233, 2047, 2048, 8364, 65535, 65536, 128512, 1114111 }

\* The text <NFe>, e acute, euro sign, emoji, </NFe>: a document
DocumentText == << 60, 78, 70, 101, 62, 233, 8364, 128512, 60, 47, 78, 70, 101, 62 >>

\* The texts: the short ones, none of which holds an element, and the document
Texts == UNION { [1..n -> CodePoints] : n \in 0..MaxLen } \cup { DocumentText }

\* ET.fromstring(texto_decodificado), of the texts here: the document is its
\* root, whose text no extractor reads, and a text with no element in it
\* raises ParseError
FromString(t) == IF t = DocumentText THEN Doc("NFe", "", << >>) ELSE Malformed

\* The UTF-8 bytes of one code point
Utf8EncodeCp(cp) ==
    IF cp < 128 THEN << cp >>
    ELSE IF cp < 2048 THEN << 192 + (cp \div 64), 128 + (cp % 64) >>
    ELSE IF cp < 65536
    THEN << 224 + (cp \div 4096), 128 + ((cp \div 64) % 64), 128 + (cp % 64) >>
    ELSE << 240 + (cp \div 262144), 128 + ((cp \div 4096) % 64), 128 + ((cp \div 64) % 64),
            128 + (cp % 64) >>

RECURSIVE Utf8Encode(_)
\* str.encode("utf-8")
Utf8Encode(s) ==
    IF s = << >> THEN << >> ELSE Utf8EncodeCp(Head(s)) \o Utf8Encode(Tail(s))

DecodeError == [ok |-> FALSE, value |-> << >>, exc |-> "Error"]

RECURSIVE Utf8Decode(_)
\* bytes.decode('utf-8'): strict, so a stray or missing continuation byte, an
\* overlong form, a surrogate or a value above U+10FFFF is an error
Utf8Decode(b) ==
    IF b = << >> THEN Decoded(<< >>)
    ELSE
    LET b1 == b[1]
        n  == IF b1 < 128 THEN 1
              ELSE IF b1 \in 194..223 THEN 2
              ELSE IF b1 \in 224..239 THEN 3
              ELSE IF b1 \in 240..244 THEN 4
              ELSE 0
    IN  IF n = 0 \/ Len(b) < n THEN DecodeError
        ELSE IF \E k \in 2..n : b[k] \notin 128..191 THEN DecodeError
        ELSE
        LET cp == CASE n = 1 -> b1
                    [] n = 2 -> (b1 - 192) * 64 + (b[2] - 128)
                    [] n = 3 -> (b1 - 224) * 4096 + (b[2] - 128) * 64 + (b[3] - 128)
                    [] n = 4 -> (b1 - 240) * 262144 + (b[2] - 128) * 4096
                                    + (b[3] - 128) * 64 + (b[4] - 128)
            rest == Utf8Decode(SubSeq(b, n + 1, Len(b)))
        IN  IF \/ n = 3 /\ (cp < 2048 \/ cp \in 55296..57343)
               \/ n = 4 /\ (cp < 65536 \/ cp > 1114111)
            THEN DecodeError
            ELSE IF rest.ok THEN Decoded(<< cp >> \o rest.value) ELSE DecodeError

\* The base64 alphabet, the character of value v at position v + 1
B64Alphabet ==
    << "A", "B", "C", "D", "E", "F", "G", "H", "I", "J", "K", "L", "M", "N", "O", "P",
       "Q", "R", "S", "T", "U", "V", "W", "X", "Y", "Z", "a", "b", "c", "d", "e", "f",
       "g", "h", "i", "j", "k", "l", "m", "n", "o", "p", "q", "r", "s", "t", "u", "v",
       "w", "x", "y", "z", "0", "1", "2", "3", "4", "5", "6", "7", "8", "9", "+", "/" >>

B64Char(v) == B64Alphabet[v + 1]

\* The value of a character, 64 for one outside the alphabet
B64Value(ch) ==
    IF \E v \in 0..63 : B64Char(v) = ch THEN CHOOSE v \in 0..63 : B64Char(v) = ch ELSE 64

RECURSIVE B64Encode(_)
\* base64.b64encode: three bytes to four characters, the last group padded
B64Encode(b) ==
    IF b = << >> THEN << >>
    ELSE IF Len(b) = 1
    THEN << B64Char(b[1] \div 4), B64Char((b[1] % 4) * 16), "=", "=" >>
    ELSE IF Len(b) = 2
    THEN << B64Char(b[1] \div 4), B64Char(((b[1] % 4) * 16) + (b[2] \div 16)),
            B64Char((b[2] % 16) * 4), "=" >>
    ELSE << B64Char(b[1] \div 4), B64Char(((b[1] % 4) * 16) + (b[2] \div 16)),
            B64Char(((b[2] % 16) * 4) + (b[3] \div 64)), B64Char(b[3] % 64) >>
            \o B64Encode(SubSeq(b, 4, Len(b)))

RECURSIVE A2bBase64(_, _, _, _, _, _, _)
\* binascii.a2b_base64 without strict mode, from character i on: quad_pos
\* characters of the current group read, leftchar the bits not yet put out,
\* pads the padding characters seen in a row.  The releases of CPython differ
\* at the '=' that completes a padded group: up to 3.13.0 the decoding ends
\* there (ends_at_padding), later ones skip it and go on with what follows,
\* and look at the padding when the text is exhausted.
A2bBase64(s, i, quad_pos, leftchar, pads, out, ends_at_padding) ==
    IF i > Len(s)
    THEN IF quad_pos # 0 /\ quad_pos + pads < 4 THEN DecodeError ELSE Decoded(out)
    ELSE IF s[i] = "="
    THEN IF ends_at_padding /\ quad_pos >= 2 /\ quad_pos + pads + 1 >= 4
         THEN Decoded(out)
         ELSE A2bBase64(s, i + 1, quad_pos, leftchar,
                        IF quad_pos >= 2 THEN pads + 1 ELSE pads, out, ends_at_padding)
    ELSE
    LET this_ch == B64Value(s[i])
    IN  IF this_ch >= 64
        THEN A2bBase64(s, i + 1, quad_pos, leftchar, pads, out, ends_at_padding)
        ELSE CASE quad_pos = 0 -> A2bBase64(s, i + 1, 1, this_ch, 0, out, ends_at_padding)
               [] quad_pos = 1 ->
                    A2bBase64(s, i + 1, 2, this_ch % 16, 0,
                              Append(out, (leftchar * 4) + (this_ch \div 16)),
                              ends_at_padding)
               [] quad_pos = 2 ->
                    A2bBase64(s, i + 1, 3, this_ch % 4, 0,
                              Append(out, (leftchar * 16) + (this_ch \div 4)),
                              ends_at_padding)
               [] quad_pos = 3 ->
                    A2bBase64(s, i + 1, 0, 0, 0, Append(out, (leftchar * 64) + this_ch),
                              ends_at_padding)

\* The characters str.encode('ascii') accepts, of those a str here is made of
AsciiChars ==
    Range(B64Alphabet) \cup
    { " ", "!", "\"", "#", "$", "%", "&", "'", "(", ")", "*", ",", "-", ".", ":", ";",
      "<", "=", ">", "?", "@", "[", "\\", "]", "^", "_", "{", "|", "}", "~",
      "\t", "\n", "\r" }

\* base64.b64decode(item), item a str: _bytes_from_decode_data encodes it as
\* ASCII and raises ValueError when it cannot, then binascii.a2b_base64 of
\* the release that runs
B64Decode(s, ends_at_padding) ==
    IF \E i \in DOMAIN s : s[i] \notin AsciiChars THEN Raises("ValueError")
    ELSE LET r == A2bBase64(s, 1, 0, 0, 0, << >>, ends_at_padding)
         IN  IF r.ok THEN r ELSE Raises("binascii.Error")

\* Items that are the encoding of no text: a group cut short, the encodings
\* of the bytes ff and c3, items with characters after the padding, and items
\* with a character that is not ASCII
OddItems == { << "Q", "Q" >>, << "Q" >>, << "/", "w", "=", "=" >>, << "w", "w", "=", "=" >>,
              << "Q", "*", "Q", "=", "=", "Q" >>,
              << "Q", "Q", "=", "=", "Q", "Q", "=", "=" >>,
              << "/", "/", "/", "=", "Q" >>, << "é" >>, << "€" >>,
              << "Q", "Q", "é", "=", "=" >> }

\* The locals the loop holds when it takes its first item
FirstItem ==
    [contador |-> 1, file_name |-> << >>, file_path |-> Unbound, dirs |-> { output_dir }]

\* The locals the loop holds when the item before was the document
AfterDocument ==
    LET doc == FromString(DocumentText)
        it == Iteration(Item("text", doc),
                        parse_documento_fiscal_string(DocumentoFiscalParser, doc),
                        1, << >>, Unbound, { output_dir }, CHOOSE t \in Times : TRUE)
    \* file_name is None_NF-e.xml, the name line 134 gave the document
    IN  [ contador |-> 2, file_name |-> << "None", "_", "NF-e", ".xml" >>,
          file_path |-> it.file_path, dirs |-> it.dirs ]

\* An item on entry; of_text tells whether it is the encoding of text, and
\* before holds the locals of the loop
CodecItem(of_text, t, item, before) ==
    [ pc |-> "item", of_text |-> of_text, text |-> t, item |-> item, bytes |-> << >>,
      texto_decodificado |-> << >>, resultado |-> NotReturned,
      contador |-> before.contador, file_name |-> before.file_name,
      file_path |-> before.file_path,
      dirs |-> before.dirs, written |-> << >>, written_to |-> Unbound, exc |-> "" ]

InitCodec ==
    /\ ParserIdle
    /\ BatchIdle
    /\ NoFrames
    /\ download = [pc |-> "idle"]
    /\ requested = << >>
    /\ \E before \in { FirstItem, AfterDocument } :
         codec \in { CodecItem(TRUE, t, B64Encode(Utf8Encode(t)), before) : t \in Texts }
                     \cup { CodecItem(FALSE, << >>, item, before) : item \in OddItems }

\* base64.b64decode(item), by either kind of release
DecodeBase64 ==
    /\ codec.pc = "item"
    /\ \E ends_at_padding \in BOOLEAN :
       \E r \in { B64Decode(codec.item, ends_at_padding) } :
         codec' = IF r.ok THEN [codec EXCEPT !.bytes = r.value, !.pc = "bytes"]
                  ELSE [codec EXCEPT !.exc = r.exc, !.pc = "raised"]
    /\ UNCHANGED << pvars, bvars, cvars, dvars >>

\* .decode('utf-8')
DecodeUtf8 ==
    /\ codec.pc = "bytes"
    /\ \E r \in { Utf8Decode(codec.bytes) } :
         codec' = IF r.ok THEN [codec EXCEPT !.texto_decodificado = r.value, !.pc = "text"]
                  ELSE [codec EXCEPT !.exc = "UnicodeDecodeError", !.pc = "raised"]
    /\ UNCHANGED << pvars, bvars, cvars, dvars >>

\* parserDFe = DocumentoFiscalParser() and
\* resultado = parserDFe.parse_documento_fiscal_string(texto_decodificado)
ParseText ==
    /\ codec.pc = "text"
    /\ codec' = [codec EXCEPT
                   !.resultado = parse_documento_fiscal_string(
                                     DocumentoFiscalParser,
                                     FromString(codec.texto_decodificado)),
                   !.pc = "parsed"]
    /\ UNCHANGED << pvars, bvars, cvars, dvars >>

\* Lines 114-140: the directories and the name of the record, then
\* open(file_path, "wb") and xml_file.write(texto_decodificado.encode("utf-8")).
\* A record with erro is given a name and no path: file_path is what the loop
\* held, and the open raises UnboundLocalError when it held none.
WriteBytes ==
    /\ codec.pc = "parsed"
    /\ \E t \in Times :
        \E it \in { Iteration(Item("text", FromString(codec.texto_decodificado)),
                              codec.resultado, codec.contador, codec.file_name,
                              codec.file_path, codec.dirs, t) } :
            codec' = [codec EXCEPT
                        !.file_name = it.file_name,
                        !.file_path = it.file_path,
                        !.dirs = it.dirs,
                        !.contador = IF it.saved THEN codec.contador + 1 ELSE codec.contador,
                        !.written = IF it.saved THEN Utf8Encode(codec.texto_decodificado)
                                    ELSE << >>,
                        !.written_to = IF it.saved THEN it.file_path ELSE Unbound,
                        !.exc = it.exc,
                        !.pc = IF it.saved THEN "written" ELSE "raised"]
    /\ UNCHANGED << pvars, bvars, cvars, dvars >>

NextCodec == DecodeBase64 \/ DecodeUtf8 \/ ParseText \/ WriteBytes

SpecCodec == InitCodec /\ [][NextCodec]_vars

\* C25: an item that is the base64 encoding of the UTF-8 bytes of a text
\* decodes without error to that text, and the bytes written to the file of
\* the item, the one that bears its file_name, are the UTF-8 bytes of the
\* text.
C25_TextWrittenToItsFile ==
    codec.pc # "idle" /\ codec.of_text =>
        /\ codec.pc \in { "text", "parsed", "written" } =>
               codec.texto_decodificado = codec.text
        /\ codec.pc # "raised"
        /\ codec.pc = "written" =>
               /\ codec.written = Utf8Encode(codec.text)
               /\ codec.written_to.name = codec.file_name

\* C26: the write of an item goes to the path computed from that item's own
\* record: no item is written to the path an earlier, different item was
\* written to, so no saved document is overwritten by a later one.
C26_NoWriteToEarlierItemsPath ==
    \A i \in DOMAIN outcomes :
        outcomes[i].saved =>
            \A j \in 1..(i - 1) :
                outcomes[j].saved /\ data[j] # data[i] =>
                    outcomes[j].file_path # outcomes[i].file_path
-----------------------------------------------------------------------------
(* SiegApiHandler.download_xmls.  A datetime is a day number and seconds   *)
(* into the day.  dirs and files are what exists below the directory the   *)
(* local output_dir names, written as process_and_save_base64 sees it;     *)
(* download.made are the directories download_xmls itself made, and        *)
(* download.tree what the output_dir of each type already left holds.      *)

MaxDays == 1

Datetime(day, secs) == [day |-> day, secs |-> secs]

\* The values of start_date and end_date: midnight or noon of a day
Dates == { Datetime(d, s) : d \in 0..MaxDays, s \in { 0, 43200 } }

Total(dt) == dt.day * 86400 + dt.secs

\* (end_date - start_date).days + 1, the length of the range of day_offset
NDays(start_date, end_date) ==
    IF Total(end_date) < Total(start_date) THEN 0
    ELSE ((Total(end_date) - Total(start_date)) \div 86400) + 1

\* class XmlType(Enum), in definition order
XmlType == << << "NFE", 1 >>, << "CTE", 2 >>, << "NFSE", 3 >>, << "NFCE", 4 >>,
              << "CFE", 5 >> >>

\* range(12)
Windows == 12

\* intervalo = timedelta(hours=1), in hours
intervalo == 1

\* current_date.replace(hour=..., minute=..., second=...)
Replace_hms(dt, hour, minute, second) == Datetime(dt.day, hour * 3600 + minute * 60 + second)

\* current_date = start_date + timedelta(days=day_offset)
CurrentDate(d) == Datetime(d.start_date.day + d.day_offset, d.start_date.secs)

\* main_dir, named by the day of current_date, and output_dir below it
MainDir(d) == << CurrentDate(d).day >>

OutputDir(d) == << CurrentDate(d).day, XmlType[d.xml_type][1] >>

\* self._build_payload(xml_type.value, data_emissao_inicio, data_emissao_fim)
\* of the iteration at (day_offset, xml_type, hora_atual); hora_atual is in
\* hours from 00:00
Payload(d) ==
    [ XmlType |-> XmlType[d.xml_type][2],
      DataEmissaoInicio |-> Replace_hms(CurrentDate(d), d.hora_atual % 24, 0, 0),
      DataEmissaoFim |-> Replace_hms(CurrentDate(d), (d.hora_atual + intervalo) % 24, 59, 59) ]

\* The requests of one call that are answered with more than nothing
MaxAnswers == 2

\* What get_base64_data may return: None when the request failed, else what
\* response.json() made of the body: a list of items, which may be empty,
\* the JSON text of one, a str that is not JSON, or a number
Responses ==
    LET nfe == PyList(<< Item("text", Doc("nfeProc", namespaces.nfe, NFeEntries)) >>)
    IN  { NoData, PyList(<< >>), EmptyStr, nfe, JsonText(nfe), NotJson, PyInt(5),
          PyList(<< Item("text", Doc("Signature", namespaces.ds, << >>)) >>) }

\* `if base64_data:`: None, an empty list, dict or str, and zero are false
Truthy(v) ==
    CASE v.type = "NoneType" -> FALSE
      [] v.type = "int" -> v.value # 0
      [] OTHER -> v.items # << >>

\* hora_atual += intervalo, and the next i
Advance(d) == [d EXCEPT !.i = d.i + 1, !.hora_atual = d.hora_atual + intervalo, !.pc = "window"]

InitDownload ==
    /\ ParserIdle
    /\ BatchIdle
    /\ NoFrames
    /\ codec = [pc |-> "idle"]
    /\ requested = << >>
    /\ \E start_date \in Dates, end_date \in Dates :
         download = [ start_date |-> start_date, end_date |-> end_date, day_offset |-> 0,
                      xml_type |-> 1, i |-> 0, hora_atual |-> 0, payload |-> NoData,
                      base64_data |-> NoData, answers |-> 0, made |-> { }, tree |-> << >>,
                      pc |-> "day" ]

\* `for day_offset in range(...)`, lines 150-159: the next day and its
\* main_dir, or the return
NextDay ==
    /\ download.pc = "day"
    /\ download' =
         IF download.day_offset < NDays(download.start_date, download.end_date)
         THEN [download EXCEPT !.made = @ \cup { MainDir(download) }, !.xml_type = 1,
                               !.pc = "type"]
         ELSE [download EXCEPT !.pc = "returned"]
    /\ UNCHANGED << requested, pvars, bvars, cvars, evars >>

\* `for xml_type in XmlType`, lines 161-168: the next type, its output_dir
\* made and hora_atual at 00:00, or the next day
NextType ==
    /\ download.pc = "type"
    /\ IF download.xml_type <= Len(XmlType)
       THEN /\ download' = [download EXCEPT !.made = @ \cup { OutputDir(download) },
                                            !.i = 0, !.hora_atual = 0, !.pc = "window"]
            /\ dirs' = { output_dir }
            /\ files' = { }
       ELSE /\ download' = [download EXCEPT !.day_offset = @ + 1, !.pc = "day"]
            /\ UNCHANGED << dirs, files >>
    /\ UNCHANGED << json_data, data, idx, contador, file_name, file_path, status, exception,
                    outcomes, requested, pvars, cvars, evars >>

\* `for i in range(12)`, lines 171-181: the payload of the next window, or
\* the next type, whose output_dir is another
NextWindow ==
    /\ download.pc = "window"
    /\ download' =
         IF download.i < Windows
         THEN [download EXCEPT !.payload = Payload(download), !.pc = "sleep"]
         ELSE [download EXCEPT !.tree = Append(@, [ output_dir |-> OutputDir(download),
                                                    dirs |-> dirs, files |-> files ]),
                               !.xml_type = @ + 1, !.pc = "type"]
    /\ UNCHANGED << requested, pvars, bvars, cvars, evars >>

\* time.sleep(3), line 183
Sleep ==
    /\ download.pc = "sleep"
    /\ download' = [download EXCEPT !.pc = "request"]
    /\ UNCHANGED << requested, pvars, bvars, cvars, evars >>

\* base64_data = self.get_base64_data(payload), line 184: the request is
\* made and answered, or fails
GetBase64Data ==
    /\ download.pc = "request"
    /\ requested' = Append(requested, download.payload)
    /\ \E base64_data \in Responses :
         /\ Truthy(base64_data) => download.answers < MaxAnswers
         /\ download' = [download EXCEPT !.base64_data = base64_data,
                                         !.answers = IF Truthy(base64_data) THEN @ + 1 ELSE @,
                                         !.pc = "branch"]
    /\ UNCHANGED << pvars, bvars, cvars, evars >>

\* `if base64_data:`, lines 185-191: process_and_save_base64 is called with
\* output_dir, or nothing is and hora_atual moves on
ProcessOrSkip ==
    /\ download.pc = "branch"
    /\ IF Truthy(download.base64_data)
       THEN /\ download' = [download EXCEPT !.pc = "processing"]
            /\ json_data' = download.base64_data
            /\ data' = << >>
            /\ idx' = 1
            /\ contador' = 1
            /\ file_name' = << >>
            /\ file_path' = Unbound
            /\ status' = "load"
            /\ exception' = ""
            /\ outcomes' = << >>
            /\ UNCHANGED << dirs, files >>
       ELSE /\ download' = Advance(download)
            /\ UNCHANGED bvars
    /\ UNCHANGED << requested, pvars, cvars, evars >>

\* process_and_save_base64 returned: hora_atual += intervalo and the next pass
ProcessReturned ==
    /\ download.pc = "processing"
    /\ status = "returned"
    /\ download' = Advance(download)
    /\ status' = "idle"
    /\ UNCHANGED << json_data, data, idx, contador, file_name, file_path, dirs, files,
                    exception, outcomes, requested, pvars, cvars, evars >>

\* process_and_save_base64 was left by an exception, which download_xmls does
\* not catch
ProcessRaised ==
    /\ download.pc = "processing"
    /\ status = "raised"
    /\ download' = [download EXCEPT !.pc = "raised"]
    /\ status' = "idle"
    /\ UNCHANGED << json_data, data, idx, contador, file_name, file_path, dirs, files,
                    exception, outcomes, requested, pvars, cvars, evars >>

NextDownload ==
    \/ NextDay \/ NextType \/ NextWindow \/ Sleep \/ GetBase64Data \/ ProcessOrSkip
    \/ LoadData \/ ProcessItem \/ LoopEnd \/ ProcessReturned \/ ProcessRaised

SpecDownload == InitDownload /\ [][NextDownload]_vars

\* Two payloads are of the same day and document type
SameDayAndType(p, q) ==
    /\ p.XmlType = q.XmlType
    /\ p.DataEmissaoInicio.day = q.DataEmissaoInicio.day

\* C27: the windows requested for a day and a document type follow one
\* another without overlap and cover the day: each spans 1h59m59s, each
\* starts one second after the one before it ended (two hours after it
\* started), the first starts at 00:00:00 and the twelfth ends at 23:59:59.
C27_WindowsPartitionTheDay ==
    \A k \in DOMAIN requested :
        LET p == requested[k]
        IN  /\ p.DataEmissaoFim.secs = p.DataEmissaoInicio.secs + 7199
            /\ k > 1 /\ SameDayAndType(requested[k - 1], p) =>
                  p.DataEmissaoInicio.secs = requested[k - 1].DataEmissaoFim.secs + 1
            /\ k >= Windows /\ SameDayAndType(requested[k - (Windows - 1)], p) =>
                  /\ requested[k - (Windows - 1)].DataEmissaoInicio.secs = 0
                  /\ p.DataEmissaoFim.secs = 86399

\* C28: a call of download_xmls that has ended made one request for every
\* day of the range, every XmlType and every one of the twelve windows, in
\* that nesting order, whatever the requests returned.
C28_OneRequestPerTriple ==
    /\ \A k \in DOMAIN requested :
          /\ requested[k].DataEmissaoInicio.day =
                download.start_date.day + ((k - 1) \div (Len(XmlType) * Windows))
          /\ requested[k].XmlType = XmlType[(((k - 1) \div Windows) % Len(XmlType)) + 1][2]
    /\ download.pc \in { "returned", "raised" } =>
          Len(requested) =
              NDays(download.start_date, download.end_date) * Len(XmlType) * Windows

\* C29: the extractor of procEventoNFe takes as inner event node the first
\* found of evento, eventocte, eventomdf, tried in that order: the fields of
\* the record are read below that node.  When the document has none of the
\* three, or the node taken has no infEvento, the record holds erro.
C29_InnerNodeInOrder ==
    pc = "returned" /\ tipo_documento = << "procEventoNFe" >> =>
        LET uri == namespaces.nfe
            evento == InnerEvento(root, uri)
            infEvento == InfEventoOf(root, uri)
        IN  /\ evento = NoElement \/ infEvento = NoElement => "erro" \in DOMAIN resultado
            /\ "erro" \notin DOMAIN resultado =>
                  \A i \in DOMAIN campos :
                      campos[i][1] \in DOMAIN resultado /\ campos[i][1] # "data_evento" =>
                          resultado[campos[i][1]] =
                              text(root, FindIn(root, uri, infEvento, << campos[i][2] >>, TRUE))

\* A document holding an eventocte and, after it, an evento, each with its
\* info block, was extracted from the evento
C29_EventoTakenOverEarlierEventocte ==
    /\ pc = "returned"
    /\ tipo_documento = << "procEventoNFe" >>
    /\ root.els = InnerNode("eventocte", "1", TRUE) \o InnerNode("evento", "2", TRUE)
    /\ "erro" \notin DOMAIN resultado
    /\ resultado.sequencia_evento = << "2" >>

\* C30: within a call the steps come in the order parse, classify, dispatch.
\* Nothing is classified before the text is parsed, no extractor is invoked
\* before the classifier returned, and the one invoked is the one registered
\* for the kind returned, so none is invoked when no kind was returned; once
\* an extractor is invoked no other is.  A malformed text yields the erro of
\* the parse, and any other argument the parser rejects an erro too, with no
\* classification and no extractor.  In the procEventoNFe
\* extractor a family that does not resolve leaves no inner lookup to make:
\* the record holds erro alone.
C30_ParseClassifyDispatch ==
    /\ [](/\ pc = "parse" =>
               /\ root = NoRoot /\ tipo_documento = PyNone
               /\ processor = NoProcessor /\ resultado = NotReturned
          /\ pc = "identify" =>
               /\ root.wf /\ tipo_documento = PyNone
               /\ processor = NoProcessor /\ resultado = NotReturned
          /\ pc = "dispatch" =>
               /\ root.wf /\ processor = NoProcessor /\ resultado = NotReturned
          /\ processor # NoProcessor =>
               /\ pc = "returned" /\ root.wf /\ tipo_documento # PyNone
               /\ \E i \in DOMAIN processors :
                     << processors[i][1] >> = tipo_documento /\ processors[i][2] = processor
          /\ pc = "returned" /\ ~xml_string.wf =>
               /\ DOMAIN resultado = { "erro" } /\ root = NoRoot
               /\ xml_string = Malformed => resultado = ErroXmlInvalido
               /\ tipo_documento = PyNone /\ processor = NoProcessor
          /\ pc = "returned" /\ processor = "_processar_proc_evento"
                /\ NsLookup(root) = PyNone => DOMAIN resultado = { "erro" })
    /\ [][processor # NoProcessor => processor' = processor]_vars

\* An extractor was invoked on a parsed and classified document
C30_ExtractorAfterClassification ==
    /\ pc = "returned"
    /\ root.wf
    /\ tipo_documento = << "procEventoNFe" >>
    /\ processor = "_processar_proc_evento"
    /\ "erro" \notin DOMAIN resultado
=============================================================================
